---- MODULE Spec2Model ----
(***************************************************************************)
(* Verification model of genome-explorer's indicator pipeline.             *)
(*                                                                         *)
(* Part I  : the Indicator Instance Store, in its two implementations:     *)
(*           App.tsx + PreferencesManager (the active list is saved as a   *)
(*           whole) and IndicatorManager + IndicatorConfigRepository (one  *)
(*           persisted record per instance).                               *)
(* Part II : the Render Reconciliation Controller of Chart.tsx (main pane  *)
(*           effect, sub-chart effect, chart re-creation).                 *)
(* Part III: the Series Calculation Engine (SMA, EMA, RSI, MACD in the     *)
(*           built-in and the file versions) and timeline alignment, as    *)
(*           pure functions applied to bounded bar sequences.              *)
(* Part IV : one call of DynamicIndicatorCalculator.calculateIndicator.    *)
(* Part V  : the market data cache (SymbolDataRepository behind CSVLoader: *)
(*           memory, persistent store, CSV file), the CSV parser, and the  *)
(*           opening of the stores at start-up.                            *)
(* Part VI : Chart.tsx under new candle data, and its crosshair tooltip.   *)
(* Part VII: Chart.tsx, the visible range kept equal on the main chart and *)
(*           a sub-chart.                                                  *)
(* Part VIII: Chart.tsx, several instances added in one render.            *)
(* Part IX : App.tsx, the asynchronous handlers (symbol change, indicator  *)
(*           add/remove) and the read-modify-write of the preferences      *)
(*           record.                                                       *)
(*                                                                         *)
(* Strings built by template literals (`${a}_${b}`) are modelled as        *)
(* sequences of tokens and `_`-joining as sequence concatenation, so that  *)
(* two keys are equal in the model exactly when their token lists are.     *)
(* The pair (Date.now(), Math.random()) of an id is one token drawn from a *)
(* counter: the model assumes that pair never repeats.                     *)
(***************************************************************************)
EXTENDS Integers, Sequences, FiniteSets, TLC

VARIABLES
    \* ---- App.tsx / PreferencesManager ----
    activeIndicators,     \* App state: sequence of ActiveIndicator records
    preferencesManager,   \* App state: TRUE when the manager is set (non-null)
    userPreferences,      \* persisted UserPreferences.activeIndicators
    \* ---- IndicatorManager / IndicatorConfigRepository ----
    indicatorConfigs,     \* persisted object store: set of IndicatorConfiguration
    isInitialized,        \* BaseRepository.isInitialized
    availableIndicators,  \* IndicatorManager.availableIndicators (definition ids)
    currentSymbolId,      \* IndicatorManager.currentSymbolId ("null" when unset)
    \* ---- id generation ----
    nextNonce,            \* number of (Date.now(), Math.random()) pairs drawn
    \* ---- observation of the last completed store call ----
    lastCall,
    wiring,               \* which Instance Store the running build uses
    \* ---- Chart.tsx ----
    chartProps,           \* Chart prop activeIndicators: set of instance ids
    renders,              \* number of renders with a new activeIndicators prop
    chartInitialized,     \* chartInitialized.current (mainChartRef.current is set)
    renderedIndicators,   \* React state (set of ids)
    subChartIndicators,   \* React state (ids of pane 'sub'; one DOM container each)
    renderedSubIndicators,\* React state (set of ids)
    subEffectPending,     \* a render with changed sub-chart deps awaits its effect
    indicatorSeriesMap,   \* indicatorSeriesMap.current: set of entries, one per key
    mainSeries,           \* line series live on the main chart
    subChartsRef,         \* subChartsRef.current: the sub-charts, one per id at most
    subSeries,            \* line series live on the sub-charts of subChartsRef
    inflight,             \* calculations dispatched and not yet resolved
    subTimers,            \* pending setTimeout(..., 100) callbacks of the sub effect
    released,             \* observation of the last removal by reconciliation
    mainCrosshairHandler, \* a mainCrosshairHandler is subscribed on the main chart
    tooltipData,          \* the last tooltip report delivered (or none)
    dataRender,           \* the render that brought the current `data` prop
    \* ---- Series Calculation Engine / Timeline Alignment ----
    data,                 \* the OHLC bars handed to a calculation
    calcOut,              \* the last calculation: routine, parameters, returned value
    \* ---- DynamicIndicatorCalculator.calculateIndicator (one call) ----
    callPc,               \* where the call stands: idle, frame, import, timer, done
    callEnv,              \* the instance and what its external routine does
    callOutcome,          \* the returned promise: none, pending, resolved, rejected
    callResults,          \* `results`, the list the promise resolves with
    \* ---- SymbolDataRepository (the market data cache) ----
    repoIsInitialized,    \* SymbolDataRepository.isInitialized
    db,                   \* its IndexedDBManager.db: "null" or "open"
    openFailed,           \* observation: the last attempt to open a database failed
    memoryCache,          \* memoryCache: symbol id -> entry (or none)
    symbolData,           \* persisted object store 'symbolData': symbol id -> rows
    now,                  \* Date.now()
    csvFile,              \* the symbol's source file, as the file system holds it
    repoCall,             \* observation of the last completed repository call
    \* ---- Chart.tsx: the visible range of the main chart and of one sub-chart ----
    visibleRange,         \* pane -> its visible logical range
    syncingRange,         \* the closure variable `syncingRange`
    rangeTimers,          \* pending setTimeout(() => { syncingRange = false }, 0)
    rangeEvents,          \* range changes the chart library has still to report
    lastSync,             \* observation of the last range handler invocation
    \* ---- App.tsx: the asynchronous handlers ----
    currentSymbol,        \* App state currentSymbol
    chartData,            \* App state chartData: the symbol whose bars are shown
    userPrefsRecord,      \* the stored UserPreferences record
    handlerCalls,         \* handler invocations that have not returned yet
    callLog               \* the handler invocations made, in order

storeVars == <<activeIndicators, preferencesManager, userPreferences, indicatorConfigs,
               isInitialized, availableIndicators, currentSymbolId,
               nextNonce, lastCall, wiring>>
chartVars == <<chartProps, renders, chartInitialized, renderedIndicators, subChartIndicators,
               renderedSubIndicators, subEffectPending, indicatorSeriesMap, mainSeries,
               subChartsRef, subSeries, inflight, subTimers, released,
               mainCrosshairHandler, tooltipData, dataRender>>
calcVars == <<data, calcOut>>
engineVars == <<callPc, callEnv, callOutcome, callResults>>
repoVars == <<repoIsInitialized, db, openFailed, memoryCache, symbolData, now, csvFile,
              repoCall>>
syncVars == <<visibleRange, syncingRange, rangeTimers, rangeEvents, lastSync>>
handlerVars == <<currentSymbol, chartData, userPrefsRecord, handlerCalls, callLog>>
uiVars == <<syncVars, handlerVars>>
vars == <<storeVars, chartVars, calcVars, engineVars, repoVars, uiVars>>

(***************************************************************************)
(* Bounds                                                                  *)
(***************************************************************************)
\* how many instance ids may be generated in one behaviour
MaxInstances == 2

(***************************************************************************)
(* Part I - data                                                           *)
(***************************************************************************)
\* Indicator definitions (the registry's catalogue): id -> parameter defaults.
DefinitionIds == {"sma", "macd"}

Parameters(d) ==
    IF d = "sma" THEN [period |-> 20] ELSE [fast |-> 12, slow |-> 26]

Pane(d) == IF d = "macd" THEN "sub" ELSE "main"

\* values a caller may supply for a parameter
SuppliedValues == {7}

\* every parameter map a caller may pass: any subset of the declared names
CallerValues(d) ==
    UNION {[S -> SuppliedValues] : S \in SUBSET (DOMAIN Parameters(d))}

NoValues == [k \in {} |-> 0]

\* the token standing for the n-th (Date.now(), Math.random()) pair
Nonce(n) == <<"n1", "n2", "n3", "n4", "n5", "n6">>[n]

SymbolIds == {"btcusdt"}

\* { ...a, ...b }
Spread(a, b) ==
    [k \in (DOMAIN a) \cup (DOMAIN b) |-> IF k \in DOMAIN b THEN b[k] ELSE a[k]]


(***************************************************************************)
(* Part I - App.tsx + PreferencesManager                                   *)
(***************************************************************************)
\* what a store call leaves behind for the properties below to read
Snapshot ==
    [active |-> activeIndicators, prefs |-> userPreferences, configs |-> indicatorConfigs]

Call(op, target, key, ok, arg, pre) ==
    [op |-> op, target |-> target, key |-> key, ok |-> ok, arg |-> arg, pre |-> pre]

appFrame == UNCHANGED <<indicatorConfigs, isInitialized, availableIndicators,
                        currentSymbolId, wiring, chartVars, calcVars, engineVars,
                        repoVars, uiVars>>

NoId == <<>>

\* App.tsx:206-210  finalValues
finalValues(d, values) ==
    [k \in DOMAIN Parameters(d) |->
        IF k \in DOMAIN values THEN values[k] ELSE Parameters(d)[k]]

\* PreferencesManager.saveActiveIndicators -> saveUserPreferences({activeIndicators}):
\* the stored record is { ...currentPrefs, ...preferences }, so the activeIndicators
\* field becomes the list passed in.
saveActiveIndicators(indicators) == indicators

\* PreferencesManager.getActiveIndicators: prefs.activeIndicators || []
getActiveIndicators == userPreferences

\* App.tsx:204-233
addIndicatorWithValues(d, values) ==
    LET instanceId == <<d, Nonce(nextNonce + 1)>>
        activeIndicator == [id |-> instanceId, baseId |-> d, pane |-> Pane(d),
                            isActive |-> TRUE, values |-> finalValues(d, values)]
        updatedIndicators == Append(activeIndicators, activeIndicator)
    IN  /\ wiring = "app"
        /\ nextNonce < MaxInstances
        /\ nextNonce' = nextNonce + 1
        /\ activeIndicators' = updatedIndicators
        /\ userPreferences' = IF preferencesManager
                                 THEN saveActiveIndicators(updatedIndicators)
                                 ELSE userPreferences
        /\ lastCall' = Call("add", instanceId, instanceId, preferencesManager,
                            [def |-> d, values |-> values], Snapshot)
        /\ UNCHANGED preferencesManager
        /\ appFrame

\* a filter that drops every instance of the definition the id names
RemoveById_byDefinition(list, indicatorId) ==
    SelectSeq(list, LAMBDA indicator : indicator.baseId # indicatorId[1])

\* activeIndicators.filter(indicator => indicator.id !== indicatorId)
RemoveById(list, indicatorId) == SelectSeq(list, LAMBDA indicator : indicator.id # indicatorId)

\* a remove that follows the add that returned the same id keeps the add's snapshot
RemoveCall(id, key, ok) ==
    LET afterAdd == lastCall.op = "add" /\ lastCall.target = id
    IN  Call(IF afterAdd THEN "removeAfterAdd" ELSE "remove", id, key, ok,
             NoValues, IF afterAdd THEN lastCall.pre ELSE Snapshot)

\* a load that is the first store call of a session keeps the snapshot taken when
\* the previous session ended
LoadCall(result, ok) ==
    LET first == lastCall.op = "restart"
    IN  Call(IF first THEN "loadAfterRestart" ELSE "load", NoId, NoId, ok,
             result, IF first THEN lastCall.pre ELSE Snapshot)

\* App.tsx:248-258
handleRemoveIndicator(indicatorId) ==
    LET updatedIndicators == RemoveById(activeIndicators, indicatorId)
    IN  /\ wiring = "app"
        /\ activeIndicators' = updatedIndicators
        /\ userPreferences' = IF preferencesManager
                                 THEN saveActiveIndicators(updatedIndicators)
                                 ELSE userPreferences
        /\ lastCall' = RemoveCall(indicatorId, indicatorId, preferencesManager)
        /\ UNCHANGED <<preferencesManager, nextNonce>>
        /\ appFrame

\* App.tsx:85-132 (the path on which the database opens)
initializeDatabase ==
    /\ wiring = "app"
    /\ ~preferencesManager
    /\ preferencesManager' = TRUE
    /\ activeIndicators' = getActiveIndicators
    /\ lastCall' = LoadCall(getActiveIndicators, TRUE)
    /\ UNCHANGED <<userPreferences, nextNonce>>
    /\ appFrame

(***************************************************************************)
(* Part I - IndicatorManager + IndicatorConfigRepository                   *)
(***************************************************************************)
\* IndexedDBManager.put on a store with keyPath 'id': insert or replace by id
Put(store, record) == {c \in store : c.id # record.id} \cup {record}

\* IndexedDBManager.delete: deleting an absent key succeeds and changes nothing
Delete(store, key) == {c \in store : c.id # key}

\* IndexedDBManager.get: request.result || null
Get(store, key) == {c \in store : c.id = key}

\* The order of string keys in the object store (the cursor of getAll walks it).
TokenRank(t) ==
    CASE t = "btcusdt" -> 0 [] t = "global" -> 1 [] t = "indicator" -> 2
      [] t = "macd" -> 3 [] t = "sma" -> 4
      [] t = "n1" -> 11 [] t = "n2" -> 12 [] t = "n3" -> 13
      [] t = "n4" -> 14 [] t = "n5" -> 15 [] t = "n6" -> 16
      [] OTHER -> 20

RECURSIVE KeyLess(_, _)
KeyLess(a, b) ==
    IF a = <<>> THEN b # <<>>
    ELSE IF b = <<>> THEN FALSE
    ELSE IF Head(a) = Head(b) THEN KeyLess(Tail(a), Tail(b))
    ELSE TokenRank(Head(a)) < TokenRank(Head(b))

\* IndexedDBManager.getAll: the records in key order
RECURSIVE GetAll(_)
GetAll(store) ==
    IF store = {} THEN <<>>
    ELSE LET first == CHOOSE c \in store : \A o \in store \ {c} : KeyLess(c.id, o.id)
         IN  <<first>> \o GetAll(store \ {first})

\* IndicatorConfigRepository.saveIndicatorConfig
saveIndicatorConfig(store, symbolId, activeIndicator) ==
    Put(store, [id |-> activeIndicator.id,
                symbolId |-> symbolId,
                indicatorId |-> activeIndicator.baseId,
                parameters |-> activeIndicator.values,
                pane |-> activeIndicator.pane,
                isEnabled |-> activeIndicator.isActive])

\* a remove that builds its key the way toggleIndicatorConfig does
removeIndicatorConfigKey_bySymbolAndDefinition(activeIndicatorId) ==
    <<"global", activeIndicatorId[2]>>

\* IndicatorConfigRepository.removeIndicatorConfig: this.delete(activeIndicatorId)
removeIndicatorConfigKey(activeIndicatorId) == activeIndicatorId

removeIndicatorConfig(store, activeIndicatorId) ==
    Delete(store, removeIndicatorConfigKey(activeIndicatorId))

\* `${symbolId}_${indicatorId}`
configId(symbolId, indicatorId) == <<symbolId, indicatorId>>

\* IndicatorConfigRepository.toggleIndicatorConfig
toggleIndicatorConfig(store, symbolId, indicatorId, enabled) ==
    LET existingConfig == Get(store, configId(symbolId, indicatorId))
    IN  IF existingConfig # {}
           THEN LET e == CHOOSE c \in existingConfig : TRUE
                IN  Put(store, [e EXCEPT !.isEnabled = enabled])
           ELSE store

\* IndicatorConfigRepository.updateIndicatorParameters
Repo_updateIndicatorParameters(store, symbolId, indicatorId, parameters) ==
    LET existingConfig == Get(store, configId(symbolId, indicatorId))
    IN  IF existingConfig # {}
           THEN LET e == CHOOSE c \in existingConfig : TRUE
                IN  Put(store, [e EXCEPT !.parameters = Spread(e.parameters, parameters)])
           ELSE store

\* IndicatorManager.createActiveIndicatorFromBase (Date.now() is the token "now")
createActiveIndicatorFromBase(baseIndicator, config) ==
    [id |-> <<config.symbolId, config.indicatorId, "now">>,
     baseId |-> config.indicatorId,
     pane |-> Pane(baseIndicator),
     isActive |-> config.isEnabled,
     values |-> config.parameters]

\* IndicatorConfigRepository.convertConfigToActiveIndicator
convertConfigToActiveIndicator(config, baseIndicator) ==
    [baseIndicator EXCEPT !.id = config.id,
                          !.baseId = config.indicatorId,
                          !.isActive = config.isEnabled,
                          !.values = config.parameters,
                          !.pane = config.pane]

\* the instances a caller of the manager can hold: those the store persists
HeldInstances ==
    {[id |-> c.id, baseId |-> c.indicatorId, pane |-> c.pane, isActive |-> c.isEnabled,
      values |-> c.parameters] : c \in indicatorConfigs}

managerFrame == UNCHANGED <<activeIndicators, preferencesManager, userPreferences,
                            wiring, chartVars, calcVars, engineVars, repoVars, uiVars>>

\* IndicatorManager.initialize -> BaseRepository.initialize (the database opens)
initialize ==
    /\ wiring = "manager"
    /\ ~isInitialized
    /\ isInitialized' = TRUE
    /\ managerFrame
    /\ UNCHANGED <<indicatorConfigs, availableIndicators, currentSymbolId, nextNonce,
                   lastCall>>

\* IndicatorLoader.loadAvailableIndicators: the registry's catalogue
loadAvailableIndicators == DefinitionIds

\* IndicatorManager.initializeAvailableIndicators: started by the constructor and
\* not awaited, so it completes at any later moment (a failed load leaves the map
\* empty, which is the state before this step).
initializeAvailableIndicators ==
    /\ wiring = "manager"
    /\ availableIndicators = {}
    /\ availableIndicators' = loadAvailableIndicators
    /\ managerFrame
    /\ UNCHANGED <<indicatorConfigs, isInitialized, currentSymbolId, nextNonce, lastCall>>

\* IndicatorManager.setCurrentSymbol
setCurrentSymbol(symbolId) ==
    /\ wiring = "manager"
    /\ currentSymbolId # symbolId
    /\ currentSymbolId' = symbolId
    /\ managerFrame
    /\ UNCHANGED <<indicatorConfigs, isInitialized, availableIndicators, nextNonce,
                   lastCall>>

\* IndicatorManager.addIndicator (`parameters || {}`: no parameters is the empty map)
addIndicator(d, parameters) ==
    LET activeIndicator == [id |-> <<"indicator", d, Nonce(nextNonce + 1)>>,
                            baseId |-> d, pane |-> Pane(d), isActive |-> TRUE,
                            values |-> parameters]
    IN  /\ wiring = "manager"
        /\ nextNonce < MaxInstances
        /\ nextNonce' = nextNonce + 1
        /\ indicatorConfigs' = IF isInitialized
                                  THEN saveIndicatorConfig(indicatorConfigs, "global",
                                                           activeIndicator)
                                  ELSE indicatorConfigs
        /\ lastCall' = Call("add", activeIndicator.id, activeIndicator.id,
                            isInitialized, [def |-> d, values |-> parameters], Snapshot)
        /\ managerFrame
        /\ UNCHANGED <<isInitialized, availableIndicators, currentSymbolId>>

\* IndicatorManager.removeIndicator
removeIndicator(activeIndicator) ==
    /\ wiring = "manager"
    /\ indicatorConfigs' = IF isInitialized
                              THEN removeIndicatorConfig(indicatorConfigs, activeIndicator.id)
                              ELSE indicatorConfigs
    /\ lastCall' = RemoveCall(activeIndicator.id,
                              removeIndicatorConfigKey(activeIndicator.id), isInitialized)
    /\ managerFrame
    /\ UNCHANGED <<isInitialized, availableIndicators, currentSymbolId, nextNonce>>

\* IndicatorManager.updateIndicatorParameters
updateIndicatorParameters(activeIndicator, newParameters) ==
    LET ok == currentSymbolId # "null" /\ isInitialized
    IN  /\ wiring = "manager"
        /\ indicatorConfigs' =
              IF ok THEN Repo_updateIndicatorParameters(indicatorConfigs, currentSymbolId,
                                                        activeIndicator.baseId, newParameters)
                    ELSE indicatorConfigs
        /\ lastCall' = Call("updateParameters", activeIndicator.id,
                            configId(currentSymbolId, activeIndicator.baseId), ok,
                            newParameters, Snapshot)
        /\ managerFrame
        /\ UNCHANGED <<isInitialized, availableIndicators, currentSymbolId, nextNonce>>

\* IndicatorManager.toggleIndicator
toggleIndicator(activeIndicator, enabled) ==
    LET ok == currentSymbolId # "null" /\ isInitialized
    IN  /\ wiring = "manager"
        /\ indicatorConfigs' =
              IF ok THEN toggleIndicatorConfig(indicatorConfigs, currentSymbolId,
                                               activeIndicator.baseId, enabled)
                    ELSE indicatorConfigs
        /\ lastCall' = Call("setEnabled", activeIndicator.id,
                            configId(currentSymbolId, activeIndicator.baseId), ok,
                            [enabled |-> enabled], Snapshot)
        /\ managerFrame
        /\ UNCHANGED <<isInitialized, availableIndicators, currentSymbolId, nextNonce>>

\* IndicatorManager.loadGlobalIndicators: the value it returns
LoadedIndicators ==
    LET allConfigs == IF isInitialized THEN GetAll(indicatorConfigs) ELSE <<>>
        activeConfigs == SelectSeq(allConfigs, LAMBDA config : config.isEnabled)
        known == SelectSeq(activeConfigs,
                           LAMBDA config : config.indicatorId \in availableIndicators)
    IN  [i \in 1..Len(known) |->
            convertConfigToActiveIndicator(
                known[i], createActiveIndicatorFromBase(known[i].indicatorId, known[i]))]

loadGlobalIndicators ==
    /\ wiring = "manager"
    /\ lastCall' = LoadCall(LoadedIndicators, isInitialized)
    /\ managerFrame
    /\ UNCHANGED <<indicatorConfigs, isInitialized, availableIndicators, currentSymbolId,
                   nextNonce>>

\* The window is closed and the application started again: every in-memory field
\* returns to its initial value (App.tsx useState initialisers, IndicatorManager and
\* BaseRepository field initialisers); the IndexedDB stores keep their content.
Restart ==
    /\ lastCall.op # "restart"
    /\ activeIndicators' = <<>>
    /\ preferencesManager' = FALSE
    /\ isInitialized' = FALSE
    /\ availableIndicators' = {}
    /\ currentSymbolId' = "null"
    /\ lastCall' = Call("restart", NoId, NoId, TRUE, NoValues, Snapshot)
    /\ UNCHANGED <<userPreferences, indicatorConfigs, nextNonce, wiring, chartVars,
                   calcVars, engineVars, repoVars, uiVars>>

StoreIdle ==
    /\ activeIndicators = <<>>
    /\ preferencesManager = FALSE
    /\ userPreferences = <<>>
    /\ indicatorConfigs = {}
    /\ isInitialized = FALSE
    /\ availableIndicators = {}
    /\ currentSymbolId = "null"
    /\ nextNonce = 0
    /\ lastCall = Call("restart", NoId, NoId, TRUE, NoValues,
                       [active |-> <<>>, prefs |-> <<>>, configs |-> {}])

StoreInit == wiring \in {"app", "manager"} /\ StoreIdle

ChartInit ==
    /\ chartProps = {}
    /\ renders = 0
    /\ chartInitialized = FALSE
    /\ renderedIndicators = {}
    /\ subChartIndicators = {}
    /\ renderedSubIndicators = {}
    /\ subEffectPending = FALSE
    /\ indicatorSeriesMap = {}
    /\ mainSeries = {}
    /\ subChartsRef = {}
    /\ subSeries = {}
    /\ inflight = {}
    /\ subTimers = {}
    /\ released = [id |-> "none", handles |-> {}, live |-> {}]
    /\ mainCrosshairHandler = FALSE
    /\ tooltipData = [to |-> "none"]
    /\ dataRender = 0

\* no calculation has been asked for
NoCalc == [op |-> "none"]

CalcIdle == data = <<>> /\ calcOut = NoCalc

\* calculateIndicator has not been called
NoEnv == [revision |-> 0, baseId |-> "none", scenario |-> "none"]

EngineIdle ==
    /\ callPc = "idle"
    /\ callEnv = NoEnv
    /\ callOutcome = "none"
    /\ callResults = <<>>

RepoSymbols == {"btcusdt"}

\* this.memoryCache[symbolId] is undefined
NoEntry == [present |-> FALSE]

\* the source file of a symbol: the symbols folder may be unconfigured, the file
\* may be missing, or it holds lines
File(status, lines) == [status |-> status, lines |-> lines]

NoRepoCall == [op |-> "none"]

\* the repository as constructed, an empty object store, no source file
RepoIdle ==
    /\ repoIsInitialized = FALSE
    /\ db = "null"
    /\ openFailed = FALSE
    /\ memoryCache = [symbol \in RepoSymbols |-> NoEntry]
    /\ symbolData = [symbol \in RepoSymbols |-> {}]
    /\ now = 0
    /\ csvFile = File("missing", <<>>)
    /\ repoCall = NoRepoCall

NoSync == [handler |-> "none"]

\* both panes show the same range, no range change is being propagated
SyncIdle ==
    /\ visibleRange = [pane \in {"main", "sub"} |-> 0]
    /\ syncingRange = FALSE
    /\ rangeTimers = 0
    /\ rangeEvents = {}
    /\ lastSync = NoSync

\* no symbol selected, default preferences stored, no handler running
HandlersIdle ==
    /\ currentSymbol = "null"
    /\ chartData = "none"
    /\ userPrefsRecord = [activeIndicators |-> 0, lastSelectedSymbol |-> "null"]
    /\ handlerCalls = {}
    /\ callLog = <<>>

UiIdle == SyncIdle /\ HandlersIdle

Init == StoreInit /\ ChartInit /\ CalcIdle /\ EngineIdle /\ RepoIdle /\ UiIdle

\* ids a caller of App.handleRemoveIndicator can pass: the shape of the ids issued so
\* far, for any definition (so also ids that were never added or are removed already)
KnownIds == {<<d, Nonce(n)>> : d \in DefinitionIds, n \in 1..nextNonce}

\* ActiveIndicator objects a caller of the manager may still hold for ids that are
\* not persisted (removed already, or never added)
StaleInstances ==
    {[id |-> <<"indicator", d, Nonce(n)>>, baseId |-> d, pane |-> Pane(d),
      isActive |-> TRUE, values |-> Parameters(d)]
        : d \in DefinitionIds, n \in 1..nextNonce}

StoreNext ==
    \/ \E d \in DefinitionIds : \E values \in CallerValues(d) : addIndicatorWithValues(d, values)
    \/ \E id \in KnownIds : handleRemoveIndicator(id)
    \/ initializeDatabase
    \/ initialize
    \/ initializeAvailableIndicators
    \/ \E s \in SymbolIds : setCurrentSymbol(s)
    \/ \E d \in DefinitionIds : \E parameters \in CallerValues(d) : addIndicator(d, parameters)
    \/ \E a \in HeldInstances \cup StaleInstances : removeIndicator(a)
    \/ \E a \in HeldInstances : \E p \in CallerValues(a.baseId) :
          updateIndicatorParameters(a, p)
    \/ \E a \in HeldInstances : \E enabled \in BOOLEAN : toggleIndicator(a, enabled)
    \/ loadGlobalIndicators
    \/ Restart

\* The Instance Store: either implementation, across restarts
SpecStore == Init /\ [][StoreNext]_vars

(***************************************************************************)
(* Part I - properties of the Instance Store                               *)
(***************************************************************************)
\* the persisted records, whichever store is wired, as (id, definition, values)
Identity(x) == [id |-> x.id, definitionId |-> x.baseId, values |-> x.values]

ConfigIdentity(c) == [id |-> c.id, definitionId |-> c.indicatorId, values |-> c.parameters]

SeqIdentities(list) == {Identity(list[i]) : i \in 1..Len(list)}

PersistedEnabled(prefs, configs) ==
    IF wiring = "app" THEN SeqIdentities(prefs)
    ELSE {ConfigIdentity(c) : c \in {x \in configs : x.isEnabled}}

\* C5: two instances of one definition have distinct ids and separate records, and
\* every store operation addresses the persisted record by the instance id it was
\* called for (never by a key built from symbol and definition).
C5_AddressedByInstanceId ==
    /\ \A i, j \in 1..Len(userPreferences) :
          i # j => userPreferences[i].id # userPreferences[j].id
    /\ (lastCall.ok /\ lastCall.op \in {"add", "remove", "removeAfterAdd",
                                        "updateParameters", "setEnabled"})
          => lastCall.key = lastCall.target

\* C6: addInstance followed by removeInstance of the returned id leaves the
\* in-memory active list and the persisted stores as they were before the add.
C6_AddThenRemoveRestores ==
    lastCall.op = "removeAfterAdd" =>
        /\ activeIndicators = lastCall.pre.active
        /\ userPreferences = lastCall.pre.prefs
        /\ indicatorConfigs = lastCall.pre.configs

\* reached: an add and the remove of its id, both persisted, next to another instance
C6_Witness ==
    /\ lastCall.op = "removeAfterAdd"
    /\ lastCall.ok
    /\ lastCall.pre.prefs # <<>> \/ lastCall.pre.configs # {}

\* C7: after updateParameters on a persisted instance, its persisted parameter map
\* is the previous map overridden by the partial values, and no other record changed.
C7_UpdateMergesParameters ==
    (lastCall.op = "updateParameters" /\ lastCall.ok
       /\ \E c \in lastCall.pre.configs : c.id = lastCall.target)
    => LET old == CHOOSE c \in lastCall.pre.configs : c.id = lastCall.target
       IN  indicatorConfigs =
              Put(lastCall.pre.configs,
                  [old EXCEPT !.parameters = Spread(old.parameters, lastCall.arg)])

\* C8: setEnabled(id, false) keeps the persisted record and marks it disabled (so it
\* is not among the enabled ones); setEnabled(id, true) marks it enabled again.
C8_SetEnabledMarksRecord ==
    (lastCall.op = "setEnabled" /\ lastCall.ok
       /\ \E c \in lastCall.pre.configs : c.id = lastCall.target)
    => LET old == CHOOSE c \in lastCall.pre.configs : c.id = lastCall.target
       IN  indicatorConfigs =
              Put(lastCall.pre.configs, [old EXCEPT !.isEnabled = lastCall.arg.enabled])

\* C9: a completed addInstance has persisted an enabled record whose parameter map
\* holds, for every parameter the definition declares, the caller's value when given
\* and the declared default otherwise.
C9_AddStoresMergedValues ==
    (lastCall.op = "add" /\ lastCall.ok)
    => [id |-> lastCall.target, definitionId |-> lastCall.arg.def,
        values |-> finalValues(lastCall.arg.def, lastCall.arg.values)]
          \in PersistedEnabled(userPreferences, indicatorConfigs)

\* C10: the first load of a session returns exactly the instances that were active
\* (persisted and enabled) when the previous session ended, with the same id,
\* definition id and parameter values.
C10_LoadRestoresSession ==
    (lastCall.op = "loadAfterRestart" /\ lastCall.ok)
    => SeqIdentities(lastCall.arg)
          = PersistedEnabled(lastCall.pre.prefs, lastCall.pre.configs)

\* addedAt: the position of an id's (Date.now(), Math.random()) pair in time
AddedAt(id) == CHOOSE n \in 1..MaxInstances : Nonce(n) = id[Len(id)]

InsertionOrdered(list) ==
    \A i, j \in 1..Len(list) : i < j => AddedAt(list[i].id) < AddedAt(list[j].id)

\* C11: the active list, in memory and as returned by a load from persistent
\* storage, lists the enabled instances in the order in which they were added.
C11_ListedInInsertionOrder ==
    /\ InsertionOrdered(activeIndicators)
    /\ lastCall.op \in {"load", "loadAfterRestart"} => InsertionOrdered(lastCall.arg)

IdsOf(snapshot) ==
    {snapshot.active[i].id : i \in 1..Len(snapshot.active)}
    \cup {snapshot.prefs[i].id : i \in 1..Len(snapshot.prefs)}
    \cup {c.id : c \in snapshot.configs}

MaxRenders == 4

\* the instances the parent can pass to the chart, with their definitions
ChartInstances == {"sma_1", "bb_1", "macd_1"}

baseId(activeIndicator) ==
    IF activeIndicator = "sma_1" THEN "sma"
    ELSE IF activeIndicator = "bb_1" THEN "bollinger"
    ELSE IF activeIndicator = "macd_1" THEN "macd" ELSE "failing"

\* keys of the object a calculation script returns ({} for a plain array)
SeriesNames(d) ==
    IF d = "sma" THEN {}
    ELSE IF d = "bollinger" THEN {"upper", "middle", "lower"}
    ELSE {"macd", "signal", "histogram"}

\* DynamicIndicatorCalculator.calculateIndicator: the ids of the results; an
\* instance whose calculation fails or returns nothing resolves to no result
calculateIndicator(activeIndicator) ==
    IF baseId(activeIndicator) = "failing" THEN {}
    ELSE IF SeriesNames(baseId(activeIndicator)) = {}
    THEN {<<activeIndicator>>}
    ELSE {<<activeIndicator, seriesName>> : seriesName \in SeriesNames(baseId(activeIndicator))}

\* chart.addLineSeries(...) for one result of calculation t
addLineSeries(seriesId, t) == [id |-> seriesId, indicator |-> t.indicator, run |-> t.run]

SetAll_replacing(map, t) ==
    {[seriesId |-> sid, series |-> addLineSeries(sid, t), baseIndicator |-> t.indicator]
        : sid \in calculateIndicator(t.indicator)}

\* indicatorSeriesMap.current.set(series.id, {...}) for every result of calculation t
SetAll(map, t) ==
    {e \in map : e.seriesId \notin calculateIndicator(t.indicator)}
    \cup {[seriesId |-> sid, series |-> addLineSeries(sid, t), baseIndicator |-> t.indicator]
            : sid \in calculateIndicator(t.indicator)}

\* a removal that looks the instance up by series id
OwnedSeries_bySeriesId(map, indicatorId) == {e \in map : e.seriesId = <<indicatorId>>}

\* the entries the removal loops select: seriesData.baseIndicator.id === indicatorId
OwnedSeries(map, indicatorId) == {e \in map : e.baseIndicator = indicatorId}

NoRemoval == [id |-> "none", handles |-> {}, live |-> {}]

storeFrame == UNCHANGED <<storeVars, calcVars, engineVars, repoVars, uiVars>>

\* Chart init effect, the setTimeout(..., 250) callback: the charts are created,
\* the handle table and both rendered sets are reset; setIsInitializing(false)
\* re-runs the sub-chart effect (isInitializing is one of its dependencies) but
\* not the main-pane effect.
createCharts ==
    /\ ~chartInitialized
    /\ chartInitialized' = TRUE
    /\ indicatorSeriesMap' = {}
    /\ renderedIndicators' = {}
    /\ renderedSubIndicators' = {}
    /\ mainSeries' = {}
    /\ subChartsRef' = {}
    /\ subSeries' = {}
    /\ subEffectPending' = TRUE
    /\ released' = NoRemoval
    /\ mainCrosshairHandler' = FALSE
    /\ UNCHANGED <<chartProps, renders, subChartIndicators, inflight, subTimers,
                   tooltipData, dataRender>>
    /\ storeFrame

\* main-pane effect: indicatorsToAdd
indicatorsToAdd(next) ==
    {i \in next : i \notin renderedIndicators /\ Pane(baseId(i)) = "main"}

indicatorIdsToRemove_all(next) == renderedIndicators

\* main-pane effect: indicatorIdsToRemove
indicatorIdsToRemove(next) == renderedIndicators \ next

\* A render with a new activeIndicators prop: the effect of lines 175-180 sets
\* subChartIndicators, and the main-pane effect runs.  removeSeries throws for a
\* series of another chart (caught), so only series of the main chart leave it.
activeIndicatorsChanged(next) ==
    /\ renders < MaxRenders
    /\ ~subEffectPending
    /\ chartProps' = next
    /\ renders' = renders + 1
    /\ subChartIndicators' = {i \in next : Pane(baseId(i)) = "sub"}
    /\ subEffectPending' = TRUE
    /\ IF chartInitialized
       THEN LET seriesToRemove ==
                    UNION {OwnedSeries(indicatorSeriesMap, indicatorId)
                             : indicatorId \in indicatorIdsToRemove(next)}
            IN  /\ mainSeries' = mainSeries \ {e.series : e \in seriesToRemove}
                /\ indicatorSeriesMap' = indicatorSeriesMap \ seriesToRemove
                /\ inflight' = inflight \cup
                       {[pane |-> "main", indicator |-> i, run |-> renders + 1]
                          : i \in indicatorsToAdd(next)}
                /\ renderedIndicators' = next
       ELSE UNCHANGED <<mainSeries, indicatorSeriesMap, inflight, renderedIndicators>>
    /\ released' =
          IF \E r \in chartProps : chartProps \ next = {r}
          THEN LET r == CHOOSE r \in chartProps : chartProps \ next = {r}
               IN  [id |-> r,
                    handles |-> {e.series : e \in {x \in indicatorSeriesMap :
                                                      x.baseIndicator = r}}
                                 \cap (mainSeries \cup subSeries),
                    live |-> mainSeries \cup subSeries]
          ELSE NoRemoval
    /\ UNCHANGED <<chartInitialized, renderedSubIndicators, subChartsRef, subSeries,
                   subTimers, mainCrosshairHandler, tooltipData, dataRender>>
    /\ storeFrame

\* Incremental sub-chart management effect (synchronous part).  chart.remove()
\* takes every series of the sub-chart with it.
subChartEffect ==
    /\ subEffectPending
    /\ subEffectPending' = FALSE
    /\ IF chartInitialized
       THEN LET subIndicatorsToAdd == subChartIndicators \ renderedSubIndicators
                subIndicatorIdsToRemove == renderedSubIndicators \ subChartIndicators
                removedCharts == {c \in subChartsRef :
                                     c.indicator \in subIndicatorIdsToRemove}
                removedIds == {c.indicator : c \in removedCharts}
            IN  /\ subChartsRef' = subChartsRef \ removedCharts
                /\ subSeries' = {x \in subSeries : x.indicator \notin removedIds}
                /\ indicatorSeriesMap' = indicatorSeriesMap \
                       UNION {OwnedSeries(indicatorSeriesMap, r) : r \in removedIds}
                /\ subTimers' = subTimers \cup
                       {[indicator |-> i, run |-> renders] : i \in subIndicatorsToAdd}
                /\ renderedSubIndicators' = subChartIndicators
       ELSE UNCHANGED <<subChartsRef, subSeries, indicatorSeriesMap, subTimers,
                        renderedSubIndicators>>
    /\ UNCHANGED <<chartProps, renders, chartInitialized, renderedIndicators,
                   subChartIndicators, mainSeries, inflight, released,
                   mainCrosshairHandler, tooltipData, dataRender>>
    /\ storeFrame

\* The setTimeout(..., 100) callback of the sub-chart effect up to its await: the
\* sub-chart is created when its container is in the DOM and the id has no chart.
\* (ChartInstances holds one sub-pane instance, so the loop has one iteration.)
subChartTimer(t) ==
    /\ t \in subTimers
    /\ subTimers' = subTimers \ {t}
    /\ IF t.indicator \in subChartIndicators
          /\ ~\E c \in subChartsRef : c.indicator = t.indicator
       THEN /\ subChartsRef' = subChartsRef \cup {[indicator |-> t.indicator, run |-> t.run]}
            /\ inflight' = inflight \cup
                   {[pane |-> "sub", indicator |-> t.indicator, run |-> t.run]}
       ELSE UNCHANGED <<subChartsRef, inflight>>
    /\ UNCHANGED <<chartProps, renders, chartInitialized, renderedIndicators,
                   subChartIndicators, renderedSubIndicators, subEffectPending,
                   indicatorSeriesMap, mainSeries, subSeries, released,
                   mainCrosshairHandler, tooltipData, dataRender>>
    /\ storeFrame

\* addIndicatorPromises, after `await calculateIndicator`: every result becomes a
\* line series of the main chart and an entry of the handle table.  While the
\* main chart is being re-created mainChartRef.current is null: addLineSeries
\* throws, which the promise's try/catch absorbs.
addIndicatorLayer(t) ==
    /\ t \in inflight
    /\ t.pane = "main"
    /\ inflight' = inflight \ {t}
    /\ IF chartInitialized
       THEN /\ mainSeries' = mainSeries \cup
                   {addLineSeries(sid, t) : sid \in calculateIndicator(t.indicator)}
            /\ indicatorSeriesMap' = SetAll(indicatorSeriesMap, t)
       ELSE UNCHANGED <<mainSeries, indicatorSeriesMap>>
    /\ released' = NoRemoval
    /\ UNCHANGED <<chartProps, renders, chartInitialized, renderedIndicators,
                   subChartIndicators, renderedSubIndicators, subEffectPending,
                   subChartsRef, subSeries, subTimers, mainCrosshairHandler,
                   tooltipData, dataRender>>
    /\ storeFrame

\* The timer callback after `await calculateIndicator`: the results are added to the
\* sub-chart the callback created.  When that chart has been removed meanwhile,
\* addLineSeries is called on a removed chart, which the library leaves undefined:
\* it throws (caught, nothing is registered) or returns a series that is on no chart.
addSubChartSeries(t) ==
    /\ t \in inflight
    /\ t.pane = "sub"
    /\ inflight' = inflight \ {t}
    /\ IF [indicator |-> t.indicator, run |-> t.run] \in subChartsRef
       THEN /\ subSeries' = subSeries \cup
                   {addLineSeries(sid, t) : sid \in calculateIndicator(t.indicator)}
            /\ indicatorSeriesMap' = SetAll(indicatorSeriesMap, t)
            /\ mainCrosshairHandler' = (mainCrosshairHandler \/ chartInitialized)
       ELSE /\ UNCHANGED subSeries
            /\ \/ UNCHANGED <<indicatorSeriesMap, mainCrosshairHandler>>
               \/ /\ indicatorSeriesMap' = SetAll(indicatorSeriesMap, t)
                  /\ mainCrosshairHandler' \in {mainCrosshairHandler,
                                                mainCrosshairHandler \/ chartInitialized}
    /\ released' = NoRemoval
    /\ UNCHANGED <<chartProps, renders, chartInitialized, renderedIndicators,
                   subChartIndicators, renderedSubIndicators, subEffectPending,
                   mainSeries, subChartsRef, subTimers, tooltipData, dataRender>>
    /\ storeFrame

\* the parent adds or removes one instance
Toggle(set, i) == IF i \in set THEN set \ {i} ELSE set \cup {i}

ChartNext ==
    \/ createCharts
    \/ \E i \in ChartInstances : activeIndicatorsChanged(Toggle(chartProps, i))
    \/ subChartEffect
    \/ \E t \in subTimers : subChartTimer(t)
    \/ \E t \in inflight : addIndicatorLayer(t)
    \/ \E t \in inflight : addSubChartSeries(t)

SpecChart == Init /\ [][ChartNext]_vars

(***************************************************************************)
(* Part II - properties of the reconciliation                              *)
(***************************************************************************)
\* no effect, timer or calculation is pending
Quiescent == ~subEffectPending /\ inflight = {} /\ subTimers = {}

HandleOwners == {e.baseIndicator : e \in indicatorSeriesMap}

LiveSeries == mainSeries \cup subSeries

\* C1: once the charts exist, reconciliation has run for the last change of the
\* active set and every calculation has completed, the instances owning an entry of
\* the handle table are exactly the active instances.
C1_ReconciliationConverges ==
    (chartInitialized /\ renders > 0 /\ Quiescent) => HandleOwners = chartProps

\* C2: when a calculation completes for an instance that is no longer in the active
\* set, no series is created and no handle-table entry is registered.
C2_StaleResultDiscarded ==
    [][\A t \in inflight :
          ((addIndicatorLayer(t) \/ addSubChartSeries(t)) /\ t.indicator \notin chartProps)
             => UNCHANGED <<indicatorSeriesMap, mainSeries, subSeries>>]_vars

\* C3: the charts never hold two live series with the same series id, that is for
\* the same (instance id, series name) pair.
C3_OneLiveSeriesPerName ==
    \A x, y \in LiveSeries : x.id = y.id => x = y

\* C4: when reconciliation has removed an instance, the handle table has no entry
\* owned by it, the series its handles referred to have left the charts, no series of
\* another instance has, and, when its handles covered all its live series (N of
\* them), exactly those N series have left the charts.
C4_RemovalReleasesAllHandles ==
    (released.id # "none" /\ ~subEffectPending) =>
        LET freed == released.live \ LiveSeries
        IN  /\ \A e \in indicatorSeriesMap : e.baseIndicator # released.id
            /\ released.handles \subseteq freed
            /\ \A x \in freed : x.indicator = released.id
            /\ {x \in released.live : x.indicator = released.id} = released.handles
                  => freed = released.handles

\* reached: the removal of a MACD instance whose 3 series were on its sub-chart
C4_Witness ==
    /\ released.id = "macd_1"
    /\ ~subEffectPending
    /\ Cardinality(released.handles) = 3
    /\ released.live \ LiveSeries = released.handles

\* ====================================================================
\* Part III.  Series Calculation Engine and Timeline Alignment
\* (dynamicIndicatorCalculator.ts, data/indicators/*.js and the older
\* calculation files sma.js / rsi.js / macd.js kept beside them)
\* ====================================================================

\* Bounds of the inputs explored.
MaxBars == 4
MaxClose == 2
MaxPeriod == 3

\* ---- JavaScript numbers ------------------------------------------
\* A value is a record [k, n, d]: a finite number n/d in lowest terms
\* (k = "num"), or one of null, undefined, NaN, +/-Infinity (sign in n).
\* Finite arithmetic is exact: binary rounding is not modelled, neither
\* is the sign of zero.

\* The element of a one-element set.  Single({e(x) : x \in {v}}) is
\* e(v) with v computed once, as a `const` of the code is.
Single(S) == CHOOSE v \in S : TRUE

Abs(x) == IF x < 0 THEN -x ELSE x

Sign(x) == IF x < 0 THEN -1 ELSE 1

RECURSIVE Gcd(_, _)
Gcd(a, b) == IF b = 0 THEN a ELSE Gcd(b, a % b)

Ratio(n, d) ==
    Single({[k |-> "num", n |-> Sign(d) * (n \div g), d |-> Abs(d) \div g] :
               g \in {Gcd(Abs(n), Abs(d))}})

Num(i) == [k |-> "num", n |-> i, d |-> 1]

Null == [k |-> "null", n |-> 0, d |-> 1]

Undefined == [k |-> "undefined", n |-> 0, d |-> 1]

NaN == [k |-> "NaN", n |-> 0, d |-> 1]

Infinity(sign) == [k |-> "Infinity", n |-> sign, d |-> 1]

\* the conversion an arithmetic operator applies to its operands
ToNumber(a) ==
    Single({CASE x.k = "null" -> Num(0)
              [] x.k = "undefined" -> NaN
              [] OTHER -> x : x \in {a}})

Neg(a) ==
    Single({IF x.k = "NaN" THEN NaN ELSE [x EXCEPT !.n = -x.n] :
               x \in {ToNumber(a)}})

\* a + b
Add(a, b) ==
    Single({CASE x.k = "NaN" \/ y.k = "NaN" -> NaN
              [] x.k = "Infinity" /\ y.k = "Infinity" ->
                    IF x.n = y.n THEN x ELSE NaN
              [] x.k = "Infinity" -> x
              [] y.k = "Infinity" -> y
              [] OTHER ->
                    LET g == Gcd(x.d, y.d)
                    IN  Ratio(x.n * (y.d \div g) + y.n * (x.d \div g),
                              (x.d \div g) * y.d) :
               x \in {ToNumber(a)}, y \in {ToNumber(b)}})

\* a - b
Sub(a, b) == Add(a, Neg(b))

\* a * b
Mul(a, b) ==
    Single({CASE x.k = "NaN" \/ y.k = "NaN" -> NaN
              [] x.k = "Infinity" \/ y.k = "Infinity" ->
                    IF x.n = 0 \/ y.n = 0 THEN NaN
                    ELSE Infinity(Sign(x.n) * Sign(y.n))
              [] OTHER ->
                    LET g1 == Gcd(Abs(x.n), y.d)
                        g2 == Gcd(Abs(y.n), x.d)
                    IN  Ratio((x.n \div g1) * (y.n \div g2),
                              (x.d \div g2) * (y.d \div g1)) :
               x \in {ToNumber(a)}, y \in {ToNumber(b)}})

\* a / b: a zero divisor gives NaN for 0/0 and Infinity otherwise
Div(a, b) ==
    Single({CASE x.k = "NaN" \/ y.k = "NaN" -> NaN
              [] x.k = "Infinity" /\ y.k = "Infinity" -> NaN
              [] x.k = "Infinity" -> Infinity(x.n * Sign(y.n))
              [] y.k = "Infinity" -> Num(0)
              [] y.n = 0 -> IF x.n = 0 THEN NaN ELSE Infinity(Sign(x.n))
              [] OTHER -> Mul(x, Ratio(y.d, y.n)) :
               x \in {ToNumber(a)}, y \in {ToNumber(b)}})

\* `x || fallback` on a numeric parameter: 0 and a missing parameter
\* (drawn as 0) both take the fallback
OrDefault(x, fallback) == IF x = 0 THEN fallback ELSE x

\* ---- bars --------------------------------------------------------
Bar(i, close) == [time |-> 100 * i, close |-> close]

\* closes [1,2,3,4,5] at times [100,200,300,400,500]
ScenarioBars == [i \in 1..5 |-> Bar(i, i)]

BarSeqs ==
    {[i \in 1..n |-> Bar(i, closes[i])] :
        n \in 0..MaxBars, closes \in [1..MaxBars -> 1..MaxClose]}
    \cup {ScenarioBars}

Periods == 0..MaxPeriod

\* MACD periods are always supplied: with the defaults 12 and 26 the
\* exact quotients outgrow the machine integers they are kept in
SuppliedPeriods == 1..MaxPeriod

\* ---- SMA ---------------------------------------------------------
\* inner loop: sum of data[j][source] for j = i-period+1 .. i
\* (source is always 'close' here)
RECURSIVE SumClose(_, _, _)
SumClose(d, from, to) ==
    IF from > to THEN 0 ELSE SumClose(d, from, to - 1) + d[to].close

WindowSum_lastOnly(d, i, period) == d[i].close * period

WindowSum(d, i, period) == SumClose(d, i - period + 1, i)

\* outer loop of calculateSMA from (1-based) index i to the last bar
RECURSIVE SMALoop(_, _, _)
SMALoop(d, period, i) ==
    IF i > Len(d) THEN <<>>
    ELSE <<[time  |-> d[i].time,
            value |-> Div(Num(WindowSum(d, i, period)), Num(period))]>>
         \o SMALoop(d, period, i + 1)

calculateSMA_fromPeriod(d, parameters) ==
    LET period == OrDefault(parameters.period, 20)
    IN  SMALoop(d, period, period + 1)

\* DynamicIndicatorCalculator.calculateSMA: for (i = period - 1; ...)
calculateSMA(d, parameters) ==
    LET period == OrDefault(parameters.period, 20)
    IN  SMALoop(d, period, period)

\* the same routine, line for line, in the stand-alone calculation file
calculateSMA_part012(d, parameters) ==
    LET period == OrDefault(parameters.period, 20)
    IN  SMALoop(d, period, period)

\* ---- EMA --------------------------------------------------------
\* DynamicIndicatorCalculator.calculateEMA, loop from (1-based) bar i:
\* ema = (data[i][source] - ema) * multiplier + ema
RECURSIVE EMALoop(_, _, _, _)
EMALoop(d, multiplier, ema, i) ==
    IF i > Len(d) THEN <<>>
    ELSE Single({<<[time |-> d[i].time, value |-> next]>>
                 \o EMALoop(d, multiplier, next, i + 1) :
                    next \in {Add(Mul(Sub(Num(d[i].close), ema), multiplier),
                                  ema)}})

\* seeded with the first bar; no test of data.length against period
calculateEMA(d, parameters) ==
    IF Len(d) = 0 THEN <<>>
    ELSE Single({<<[time |-> d[1].time, value |-> Num(d[1].close)]>>
                 \o EMALoop(d, multiplier, Num(d[1].close), 2) :
                    multiplier \in
                        {Div(Num(2),
                             Num(OrDefault(parameters.period, 20) + 1))}})

\* sum of data[i].value for i = 0 .. period-1
RECURSIVE SeedSum(_, _)
SeedSum(points, period) ==
    IF period = 0 THEN Num(0)
    ELSE Add(SeedSum(points, period - 1), points[period].value)

\* ema = (data[i].value * multiplier) + (ema * (1 - multiplier))
RECURSIVE SeededEMALoop(_, _, _, _)
SeededEMALoop(points, multiplier, ema, i) ==
    IF i > Len(points) THEN <<>>
    ELSE Single({<<[time |-> points[i].time, value |-> next]>>
                 \o SeededEMALoop(points, multiplier, next, i + 1) :
                    next \in {Add(Mul(points[i].value, multiplier),
                                  Mul(ema, Sub(Num(1), multiplier)))}})

\* the calculation files' EMA over {time, value} points: empty below
\* `period` points, else seeded with the mean of the first `period`
calculateEMAFromData(points, period) ==
    Single({IF Len(pts) < period THEN <<>>
            ELSE Single({<<[time |-> pts[period].time, value |-> ema]>>
                         \o SeededEMALoop(pts, multiplier, ema, period + 1) :
                            multiplier \in {Div(Num(2), Num(period + 1))},
                            ema \in {Div(SeedSum(pts, period), Num(period))}}) :
               pts \in {points}})

\* the bars read through their close
ClosePoints(d) ==
    [i \in 1..Len(d) |-> [time |-> d[i].time, value |-> Num(d[i].close)]]

\* calculateEMA(data, period) of the MACD files: the same over closes
calculateEMA_period(d, period) == calculateEMAFromData(ClosePoints(d), period)

\* calculateEMA(data, parameters) of ema.js
calculateEMA_emajs(d, parameters) ==
    calculateEMAFromData(ClosePoints(d), OrDefault(parameters.period, 20))

\* ---- RSI --------------------------------------------------------
\* change of the close from bar j-1 to bar j (1-based j >= 2)
Change(d, j) == d[j].close - d[j - 1].close

\* gains and losses summed over the changes into bars from..to
RECURSIVE Gains(_, _, _)
Gains(d, from, to) ==
    IF from > to THEN 0
    ELSE Gains(d, from, to - 1)
         + (IF Change(d, to) > 0 THEN Change(d, to) ELSE 0)

RECURSIVE Losses(_, _, _)
Losses(d, from, to) ==
    IF from > to THEN 0
    ELSE Losses(d, from, to - 1)
         + (IF Change(d, to) < 0 THEN Abs(Change(d, to)) ELSE 0)

\* const rs = avgGain / avgLoss; const rsi = 100 - (100 / (1 + rs))
rsi(avgGain, avgLoss) ==
    Sub(Num(100), Div(Num(100), Add(Num(1), Div(avgGain, avgLoss))))

\* if (avgLoss === 0) 100 else the same quotient
rsiValue(avgGain, avgLoss) ==
    Single({IF loss = Num(0) THEN Num(100) ELSE rsi(avgGain, loss) :
               loss \in {avgLoss}})

\* DynamicIndicatorCalculator.calculateRSI, loop over the (1-based) bar
\* b = i + 2 whose trailing `period` changes are averaged
RECURSIVE RSILoop(_, _, _)
RSILoop(d, period, b) ==
    IF b > Len(d) THEN <<>>
    ELSE <<[time  |-> d[b].time,
            value |-> rsi(Div(Num(Gains(d, b - period + 1, b)), Num(period)),
                          Div(Num(Losses(d, b - period + 1, b)), Num(period)))]>>
         \o RSILoop(d, period, b + 1)

calculateRSI(d, parameters) ==
    LET period == OrDefault(parameters.period, 14)
    IN  IF Len(d) < period + 1 THEN <<>> ELSE RSILoop(d, period, period + 1)

\* the older rsi calculation file: no length test, guarded quotient
RECURSIVE GuardedRSILoop(_, _, _)
GuardedRSILoop(d, period, b) ==
    IF b > Len(d) THEN <<>>
    ELSE <<[time  |-> d[b].time,
            value |-> rsiValue(
                          Div(Num(Gains(d, b - period + 1, b)), Num(period)),
                          Div(Num(Losses(d, b - period + 1, b)), Num(period)))]>>
         \o GuardedRSILoop(d, period, b + 1)

calculateRSI_part012(d, parameters) ==
    LET period == OrDefault(parameters.period, 14)
    IN  GuardedRSILoop(d, period, period + 1)

\* rsi.js: one point per bar, null for the first `period` bars
calculateRSI_rsijs(d, parameters) ==
    LET period == OrDefault(parameters.period, 14)
    IN  [b \in 1..Len(d) |->
            IF b - 1 < period
            THEN [time |-> d[b].time, value |-> Null]
            ELSE [time  |-> d[b].time,
                  value |-> rsiValue(
                      Div(Num(Gains(d, b - period + 1, b)), Num(period)),
                      Div(Num(Losses(d, b - period + 1, b)), Num(period)))]]

\* ---- alignment ---------------------------------------------------
MapGet_nearest(series, t) ==
    LET hits == {k \in 1..Len(series) : series[k].time <= t}
    IN  IF hits = {} THEN Undefined
        ELSE series[CHOOSE k \in hits : \A h \in hits : h <= k].value

\* Map.get on a Map filled by forEach(set): the last point with the time
MapGet(series, t) ==
    LET hits == {k \in 1..Len(series) : series[k].time = t}
    IN  IF hits = {} THEN Undefined
        ELSE series[CHOOSE k \in hits : \A h \in hits : h <= k].value

alignIndicatorData_matchedOnly(indicatorData, mainData) ==
    SelectSeq([i \in 1..Len(mainData) |->
                  [time  |-> mainData[i].time,
                   value |-> MapGet(indicatorData, mainData[i].time)]],
              LAMBDA point : point.value.k # "undefined")

alignIndicatorData(indicatorData, mainData) ==
    Single({[i \in 1..Len(mainData) |->
                Single({[time  |-> mainData[i].time,
                         value |-> IF value.k # "undefined" THEN value
                                   ELSE Null] :
                           value \in {MapGet(indicatorMap, mainData[i].time)}})] :
               indicatorMap \in {indicatorData}})

\* a series whose times are moved by `offset`
Shifted(series, offset) ==
    [i \in 1..Len(series) |-> [series[i] EXCEPT !.time = @ + offset]]

\* ---- MACD -------------------------------------------------------
Min(a, b) == IF a < b THEN a ELSE b

Max(a, b) == IF a > b THEN a ELSE b

\* DynamicIndicatorCalculator.calculateMACD: one series, the index-wise
\* difference of the two built-in EMAs
calculateMACD(d, parameters) ==
    Single({[i \in 1..Min(Len(fastEMA), Len(slowEMA)) |->
                [time  |-> fastEMA[i].time,
                 value |-> Sub(fastEMA[i].value, slowEMA[i].value)]] :
               fastEMA \in {calculateEMA(d,
                   [period |-> OrDefault(parameters.fastPeriod, 12)])},
               slowEMA \in {calculateEMA(d,
                   [period |-> OrDefault(parameters.slowPeriod, 26)])}})

\* part_013, MACD line: the EMAs are paired by array index,
\* for (i = startIndex; i < min(lengths); i++), k-th pushed point
macdLine_byIndex(fastEMA, slowEMA) ==
    LET least == Min(Len(fastEMA), Len(slowEMA))
        startIndex == Max(Len(fastEMA), Len(slowEMA)) - least
    IN  [k \in 1..Max(least - startIndex, 0) |->
            [time  |-> fastEMA[startIndex + k].time,
             value |-> Sub(fastEMA[startIndex + k].value, slowEMA[k].value)]]

\* part_013, histogram: the last points of the MACD line against the signal
histogram_byIndex(macdLine, signalLine) ==
    LET offset == Len(macdLine) - Len(signalLine)
    IN  [k \in 1..Min(Len(macdLine), Len(signalLine)) |->
            [time  |-> signalLine[k].time,
             value |-> Sub(macdLine[k + offset].value, signalLine[k].value)]]

\* the older macd calculation file
calculateMACD_part013(d, parameters) ==
    Single({Single({Single({[macd      |-> macdLine,
                             signal    |-> signalLine,
                             histogram |-> histogram_byIndex(macdLine,
                                                             signalLine)] :
                signalLine \in {calculateEMAFromData(macdLine,
                                   OrDefault(parameters.signalPeriod, 9))}}) :
            macdLine \in {macdLine_byIndex(fastEMA, slowEMA)}}) :
        fastEMA \in {calculateEMA_period(d,
                        OrDefault(parameters.fastPeriod, 12))},
        slowEMA \in {calculateEMA_period(d,
                        OrDefault(parameters.slowPeriod, 26))}})

\* Array.find by time: the first point with the time
Find(series, t) ==
    series[CHOOSE k \in 1..Len(series) :
               /\ series[k].time = t
               /\ \A h \in 1..(k - 1) : series[h].time # t]

\* ema.js, MACD line: one point per bar, the EMAs paired by time
macdLine_byTime(d, fastEMA, slowEMA) ==
    [i \in 1..Len(d) |->
        Single({[time  |-> d[i].time,
                 value |-> IF fastValue # Undefined /\ slowValue # Undefined
                           THEN Sub(fastValue, slowValue)
                           ELSE Null] :
                   fastValue \in {MapGet(fastEMA, d[i].time)},
                   slowValue \in {MapGet(slowEMA, d[i].time)}})]

\* ema.js, signal line: the EMA of the valued MACD points, put back on
\* the bars by time
signalLine_byTime(d, signalEMA) ==
    [i \in 1..Len(d) |->
        Single({[time  |-> d[i].time,
                 value |-> IF signalValue # Undefined THEN signalValue
                           ELSE Null] :
                   signalValue \in {MapGet(signalEMA, d[i].time)}})]

\* ema.js, histogram
histogram_byTime(d, macdLine, signalLine) ==
    [i \in 1..Len(d) |->
        Single({[time  |-> d[i].time,
                 value |-> IF macdPoint.value # Null
                              /\ signalPoint.value # Null
                           THEN Sub(macdPoint.value, signalPoint.value)
                           ELSE Null] :
                   macdPoint \in {Find(macdLine, d[i].time)},
                   signalPoint \in {Find(signalLine, d[i].time)}})]

\* ema.js calculateMACD: every output spans all the bars
calculateMACD_emajs(d, parameters) ==
    Single({Single({Single({[macd      |-> macdLine,
                             signal    |-> signalLine,
                             histogram |-> histogram_byTime(d, macdLine,
                                                            signalLine)] :
                signalLine \in {signalLine_byTime(d,
                    calculateEMAFromData(
                        SelectSeq(macdLine, LAMBDA point : point.value # Null),
                        OrDefault(parameters.signalPeriod, 9)))}}) :
            macdLine \in {macdLine_byTime(d, fastEMA, slowEMA)}}) :
        fastEMA \in {calculateEMA_period(d,
                        OrDefault(parameters.fastPeriod, 12))},
        slowEMA \in {calculateEMA_period(d,
                        OrDefault(parameters.slowPeriod, 26))}})

\* ---- calculations as steps ---------------------------------------
Calc(op, impl, parameters, input, result) ==
    [op |-> op, impl |-> impl, parameters |-> parameters,
     input |-> input, result |-> result]

calcFrame == UNCHANGED <<storeVars, chartVars, data, engineVars, repoVars, uiVars>>

runSMA(impl, period) ==
    /\ calcOut = NoCalc
    /\ LET parameters == [period |-> period]
       IN  calcOut' = Calc("sma", impl, parameters, <<>>,
                           IF impl = "builtin"
                           THEN calculateSMA(data, parameters)
                           ELSE calculateSMA_part012(data, parameters))
    /\ calcFrame

runEMA(impl, period) ==
    /\ calcOut = NoCalc
    /\ LET parameters == [period |-> period]
       IN  calcOut' = Calc("ema", impl, parameters, <<>>,
                           IF impl = "builtin"
                           THEN calculateEMA(data, parameters)
                           ELSE calculateEMA_emajs(data, parameters))
    /\ calcFrame

runRSI(impl, period) ==
    /\ calcOut = NoCalc
    /\ LET parameters == [period |-> period]
       IN  calcOut' = Calc("rsi", impl, parameters, <<>>,
                           CASE impl = "builtin" ->
                                    calculateRSI(data, parameters)
                             [] impl = "rsi.js" ->
                                    calculateRSI_rsijs(data, parameters)
                             [] OTHER ->
                                    calculateRSI_part012(data, parameters))
    /\ calcFrame

runMACD(impl, parameters) ==
    /\ calcOut = NoCalc
    /\ calcOut' = Calc("macd", impl, parameters, <<>>,
                       CASE impl = "builtin" ->
                                calculateMACD(data, parameters)
                         [] impl = "ema.js" ->
                                calculateMACD_emajs(data, parameters)
                         [] OTHER ->
                                calculateMACD_part013(data, parameters))
    /\ calcFrame

\* the series handed to alignment: a calculation over the bars, as it
\* is, or with its times moved off or along the bars' timeline
ComputedSeries ==
    {Shifted(calculateSMA(data, [period |-> p]), offset) :
        p \in Periods, offset \in {0, 50, 100}}

runAlign(series) ==
    /\ calcOut = NoCalc
    /\ calcOut' = Calc("align", "builtin", [period |-> 0], series,
                       alignIndicatorData(series, data))
    /\ calcFrame

CalcInit ==
    /\ StoreInit /\ wiring = "app"
    /\ ChartInit
    /\ data \in BarSeqs
    /\ calcOut = NoCalc
    /\ EngineIdle
    /\ RepoIdle
    /\ UiIdle

CalcNext ==
    \/ \E impl \in {"builtin", "part_012"}, p \in Periods : runSMA(impl, p)
    \/ \E impl \in {"builtin", "ema.js"}, p \in Periods : runEMA(impl, p)
    \/ \E impl \in {"builtin", "rsi.js", "part_012"}, p \in Periods :
          runRSI(impl, p)
    \/ \E impl \in {"builtin", "ema.js", "part_013"},
          parameters \in [fastPeriod : SuppliedPeriods,
                          slowPeriod : SuppliedPeriods,
                          signalPeriod : SuppliedPeriods] :
          runMACD(impl, parameters)
    \/ \E series \in ComputedSeries : runAlign(series)

SpecCalc == CalcInit /\ [][CalcNext]_vars

\* ---- properties of Part III --------------------------------------
Times(series) == [i \in 1..Len(series) |-> series[i].time]

\* C13: for every bar sequence and every computed series (empty,
\* shorter or offset ones included) alignment returns exactly one point
\* per source bar, and the times of the output are the times of the
\* source bars, in order.
C13_AlignOnePointPerBar ==
    calcOut.op = "align" =>
        /\ Len(calcOut.result) = Len(data)
        /\ Times(calcOut.result) = Times(data)

\* a series shorter than the bars, with a point off the bars' timeline,
\* has been aligned and left a gap
C13_Witness ==
    /\ calcOut.op = "align"
    /\ calcOut.input # <<>>
    /\ Len(calcOut.input) < Len(data)
    /\ \E k \in 1..Len(calcOut.input) :
          \A i \in 1..Len(data) : calcOut.input[k].time # data[i].time
    /\ \E i \in 1..Len(data) : calcOut.result[i].value = Null

\* C14: for every period p >= 1 and every bar sequence the SMA output
\* has exactly max(0, bars.length - p + 1) points and, when it is not
\* empty, its first point carries the time of bars[p-1] (0-based).
C14_SmaLengthAndStart ==
    (calcOut.op = "sma" /\ calcOut.parameters.period >= 1) =>
        LET p == calcOut.parameters.period
            n == Len(data) - p + 1
        IN  /\ Len(calcOut.result) = IF n > 0 THEN n ELSE 0
            /\ calcOut.result # <<>> =>
                   calcOut.result[1].time = data[p].time

C14_Witness ==
    /\ calcOut.op = "sma"
    /\ calcOut.parameters.period >= 2
    /\ Len(data) > calcOut.parameters.period
    /\ Len(calcOut.result) >= 2

RECURSIVE CloseTotal(_, _)
CloseTotal(d, indices) ==
    IF indices = {} THEN 0
    ELSE LET i == CHOOSE i \in indices : TRUE
         IN  d[i].close + CloseTotal(d, indices \ {i})

\* C19: for every bar index i >= period-1 (0-based) the SMA value at
\* that bar is the arithmetic mean of the closes of bars i-period+1..i;
\* SMA(3) over closes [1,2,3,4,5] at times [100..500] yields 2, 3, 4 at
\* times 300, 400, 500.
C19_SmaIsWindowMean ==
    (calcOut.op = "sma" /\ calcOut.parameters.period >= 1) =>
        LET p == calcOut.parameters.period
        IN  /\ \A i \in p..Len(data) :
                  \E k \in 1..Len(calcOut.result) :
                      /\ calcOut.result[k].time = data[i].time
                      /\ calcOut.result[k].value.k = "num"
                      /\ calcOut.result[k].value.n * p =
                            calcOut.result[k].value.d
                                * CloseTotal(data, (i - p + 1)..i)
            /\ (data = ScenarioBars /\ p = 3) =>
                  calcOut.result = <<[time |-> 300, value |-> Num(2)],
                                     [time |-> 400, value |-> Num(3)],
                                     [time |-> 500, value |-> Num(4)]>>

C19_Witness ==
    /\ calcOut.op = "sma"
    /\ calcOut.parameters.period = 3
    /\ data = ScenarioBars
    /\ Len(calcOut.result) = 3

\* the (1-based) bar a point stands on
BarOf(point) == CHOOSE b \in 1..Len(data) : data[b].time = point.time

\* C16: for every bar sequence and every period, every value produced
\* by the RSI calculation lies in the closed interval [0, 100] (a point
\* of the warm-up carries no value).
C16_RsiWithinBounds ==
    calcOut.op = "rsi" =>
        \A k \in 1..Len(calcOut.result) :
            LET value == calcOut.result[k].value
            IN  \/ value = Null
                \/ /\ value.k = "num"
                   /\ 0 <= value.n
                   /\ value.n <= 100 * value.d

\* C17: when the average loss over the trailing period is exactly 0
\* (no close of the window fell; a completely flat window included) the
\* RSI value is 100, never Infinity or NaN.
C17_RsiNoLossIsHundred ==
    (calcOut.op = "rsi" /\ calcOut.parameters.period >= 1) =>
        \A k \in 1..Len(calcOut.result) :
            LET p == calcOut.parameters.period
                b == BarOf(calcOut.result[k])
            IN  (/\ b >= p + 1
                 /\ \A j \in (b - p + 1)..b :
                        data[j].close >= data[j - 1].close)
                => calcOut.result[k].value = Num(100)

\* C18: for RSI with period p the first output appears at bar index p
\* (0-based), and when fewer than p+1 bars are supplied the result is
\* an empty array.
C18_RsiWarmUp ==
    (calcOut.op = "rsi" /\ calcOut.parameters.period >= 1) =>
        LET p == calcOut.parameters.period
            valued == {k \in 1..Len(calcOut.result) :
                          calcOut.result[k].value # Null}
        IN  /\ Len(data) < p + 1 => calcOut.result = <<>>
            /\ Len(data) >= p + 1 =>
                  /\ valued # {}
                  /\ \A k \in valued :
                        calcOut.result[k].time >= data[p + 1].time
                  /\ \E k \in valued :
                        calcOut.result[k].time = data[p + 1].time

ThreeOutputs == calcOut.op = "macd" /\ calcOut.impl # "builtin"

\* C15: for every bar sequence the macd, signal and histogram outputs
\* of MACD each have one point per source bar, in source order, with
\* null at the same warm-up positions: the bars before the longer of
\* the two EMA warm-ups ends.
C15_MacdOutputsSpanBars ==
    (/\ ThreeOutputs
     /\ calcOut.parameters.fastPeriod >= 1
     /\ calcOut.parameters.slowPeriod >= 1
     /\ calcOut.parameters.signalPeriod >= 1) =>
        LET warmUp == IF calcOut.parameters.fastPeriod
                          > calcOut.parameters.slowPeriod
                      THEN calcOut.parameters.fastPeriod
                      ELSE calcOut.parameters.slowPeriod
        IN  \A output \in {calcOut.result.macd, calcOut.result.signal,
                            calcOut.result.histogram} :
                /\ Len(output) = Len(data)
                /\ Times(output) = Times(data)
                /\ \A i \in 1..Len(output) :
                       (output[i].value = Null) <=> (i < warmUp)

\* C20: for the SMA, EMA and MACD calculations, when there are fewer
\* source bars than the period (for MACD, than the slow period) the
\* calculation returns an empty series.
C20_ShortInputGivesEmptySeries ==
    /\ (/\ calcOut.op \in {"sma", "ema"}
        /\ calcOut.parameters.period >= 1
        /\ Len(data) < calcOut.parameters.period)
       => calcOut.result = <<>>
    /\ (/\ calcOut.op = "macd"
        /\ calcOut.parameters.fastPeriod >= 1
        /\ calcOut.parameters.slowPeriod >= 1
        /\ calcOut.parameters.signalPeriod >= 1
        /\ Len(data) < calcOut.parameters.slowPeriod)
       => IF ThreeOutputs
          THEN /\ calcOut.result.macd = <<>>
               /\ calcOut.result.signal = <<>>
               /\ calcOut.result.histogram = <<>>
          ELSE calcOut.result = <<>>

\* ====================================================================
\* Part IV.  DynamicIndicatorCalculator.calculateIndicator: loading and
\* running the external routine of an instance, in the two versions of
\* dynamicIndicatorCalculator.ts (the direct one, and the one deferred
\* through requestAnimationFrame and setTimeout)
\* ====================================================================

\* the instance the call is made for
EngineInstance == <<"indicator", "1">>

\* its definition: two well-known ids and one that has no built-in
EngineBaseIds == {"sma", "macd", "custom"}

EngineValues(definitionId) ==
    IF definitionId = "macd"
    THEN [fastPeriod |-> 1, slowPeriod |-> 2, signalPeriod |-> 2]
    ELSE [period |-> 2]

\* What the environment does to the call:
\*   noRequire        window.require is not defined
\*   noDataFolder     the indicators path is not configured
\*   importFails      the dynamic import of dataFolderManager rejects
\*   fileMissing      <definitionId>.js does not exist
\*   loadThrows       require(jsFilePath) throws
\*   functionMissing  the module exports no calculate<BASEID>
\*   throws           the routine throws
\*   returnsNothing   the routine returns undefined
\*   returnsNumber    the routine returns a number
\*   returnsBadPoints the routine returns [null]
\*   returnsSeries    the routine returns its series
Scenarios ==
    {"noRequire", "noDataFolder", "importFails", "fileMissing", "loadThrows",
     "functionMissing", "throws", "returnsNothing", "returnsNumber",
     "returnsBadPoints", "returnsSeries"}

\* the direct version reads process.cwd() and imports nothing
DirectScenarios == Scenarios \ {"noDataFolder", "importFails"}

\* the bars of a call
EngineBars == {<<>>, ScenarioBars}

\* `data` of an IndicatorResult: a series, or whatever else was returned
SeriesData(points) == [kind |-> "series", points |-> points]

OtherData(kind) == [kind |-> kind, points |-> <<>>]

IndicatorResult(id, resultData) == [id |-> id, data |-> resultData]

\* calculationModule[functionName](data, activeIndicator.values) when it
\* returns its series: an array, or for macd an object of three arrays
RoutineSeries(definitionId, d) ==
    CASE definitionId = "sma" ->
             calculateSMA_part012(d, EngineValues(definitionId))
      [] definitionId = "macd" ->
             calculateMACD_emajs(d, EngineValues(definitionId))
      [] OTHER -> ClosePoints(d)

\* calculateBuiltInIndicator: null for an id that is not built in
calculateBuiltInIndicator(definitionId, d) ==
    CASE definitionId = "sma" ->
             SeriesData(calculateSMA(d, EngineValues(definitionId)))
      [] definitionId = "macd" ->
             SeriesData(calculateMACD(d, EngineValues(definitionId)))
      [] OTHER -> OtherData("null")

\* the catch blocks: log, then return or resolve what was collected
catchError_rethrow(results) == [outcome |-> "rejected", results |-> results]

catchError(results) == [outcome |-> "resolved", results |-> results]

resolve(results) == [outcome |-> "resolved", results |-> results]

Settle(settled) ==
    /\ callPc' = "done"
    /\ callOutcome' = settled.outcome
    /\ callResults' = settled.results

engineFrame == UNCHANGED <<storeVars, chartVars, calcVars, repoVars, uiVars>>

\* ---- the direct version ------------------------------------------
\* the whole body runs within the call; the result data is not aligned
calculateIndicator_direct(definitionId, scenario) ==
    /\ callPc = "idle"
    /\ callEnv' = [revision |-> 1, baseId |-> definitionId,
                   scenario |-> scenario]
    /\ Settle(
         CASE scenario = "noRequire" ->
                \* fallback for the web environment
                Single({IF calculatedData.kind = "series"
                        THEN resolve(<<IndicatorResult(EngineInstance,
                                                       calculatedData)>>)
                        ELSE resolve(<<>>) :
                           calculatedData \in
                               {calculateBuiltInIndicator(definitionId, data)}})
           [] scenario \in {"fileMissing", "loadThrows", "throws"} ->
                catchError(<<>>)
           [] scenario = "functionMissing" -> resolve(<<>>)
           [] scenario = "returnsNothing" ->
                resolve(<<IndicatorResult(EngineInstance,
                                          OtherData("undefined"))>>)
           [] scenario = "returnsNumber" ->
                resolve(<<IndicatorResult(EngineInstance,
                                          OtherData("number"))>>)
           [] scenario = "returnsBadPoints" ->
                resolve(<<IndicatorResult(EngineInstance,
                                          OtherData("badPoints"))>>)
           [] OTHER ->
                resolve(<<IndicatorResult(EngineInstance,
                    IF definitionId = "macd"
                    THEN OtherData("object")
                    ELSE SeriesData(RoutineSeries(definitionId, data)))>>))
    /\ engineFrame

\* ---- the deferred version ----------------------------------------
\* the call only creates the promise and asks for an animation frame
calculateIndicator_deferred(definitionId, scenario) ==
    /\ callPc = "idle"
    /\ callEnv' = [revision |-> 2, baseId |-> definitionId,
                   scenario |-> scenario]
    /\ callPc' = "frame"
    /\ callOutcome' = "pending"
    /\ callResults' = <<>>
    /\ engineFrame

\* the animation frame callback, up to `await import(...)`
animationFrame ==
    /\ callPc = "frame"
    /\ IF callEnv.scenario = "noRequire"
       THEN Settle(resolve(<<>>))
       ELSE /\ callPc' = "import"
            /\ UNCHANGED <<callOutcome, callResults>>
    /\ UNCHANGED callEnv
    /\ engineFrame

\* the rest of the animation frame callback, up to setTimeout(..., 0)
afterImport ==
    /\ callPc = "import"
    /\ CASE callEnv.scenario \in {"importFails", "loadThrows"} ->
                Settle(catchError(<<>>))
         [] callEnv.scenario \in {"noDataFolder", "fileMissing",
                                  "functionMissing"} ->
                Settle(resolve(<<>>))
         [] OTHER ->
                /\ callPc' = "timer"
                /\ UNCHANGED <<callOutcome, callResults>>
    /\ UNCHANGED callEnv
    /\ engineFrame

\* Object.entries(calculatedData).forEach: one aligned result per
\* property that is a non-empty array
MultiSeriesResults(calculatedData, d) ==
    LET entry(seriesName, seriesData) ==
            IF Len(seriesData) > 0
            THEN <<IndicatorResult(Append(EngineInstance, seriesName),
                       SeriesData(alignIndicatorData(seriesData, d)))>>
            ELSE <<>>
    IN  entry("macd", calculatedData.macd)
        \o entry("signal", calculatedData.signal)
        \o entry("histogram", calculatedData.histogram)

\* the timer callback: run the routine and turn what it returns into
\* results
timerCallback ==
    /\ callPc = "timer"
    /\ Settle(
         CASE callEnv.scenario \in {"throws", "returnsBadPoints"} ->
                \* the routine, or alignment reading a null point, throws
                catchError(<<>>)
           [] callEnv.scenario \in {"returnsNothing", "returnsNumber"} ->
                resolve(<<>>)
           [] OTHER ->
                Single({IF callEnv.baseId = "macd"
                        THEN resolve(MultiSeriesResults(calculatedData, data))
                        ELSE resolve(<<IndicatorResult(EngineInstance,
                                 SeriesData(alignIndicatorData(calculatedData,
                                                               data)))>>) :
                           calculatedData \in
                               {RoutineSeries(callEnv.baseId, data)}}))
    /\ UNCHANGED callEnv
    /\ engineFrame

EngineInit ==
    /\ StoreInit /\ wiring = "app"
    /\ ChartInit
    /\ data \in EngineBars
    /\ calcOut = NoCalc
    /\ EngineIdle
    /\ RepoIdle
    /\ UiIdle

EngineNext ==
    \/ \E definitionId \in EngineBaseIds, scenario \in DirectScenarios :
          calculateIndicator_direct(definitionId, scenario)
    \/ \E definitionId \in EngineBaseIds, scenario \in Scenarios :
          calculateIndicator_deferred(definitionId, scenario)
    \/ animationFrame
    \/ afterImport
    \/ timerCallback

\* the browser runs every callback it has queued
SpecEngine == EngineInit /\ [][EngineNext]_vars /\ WF_vars(EngineNext)

\* ---- properties of Part IV ---------------------------------------
Valued(points) == SelectSeq(points, LAMBDA point : point.value # Null)

\* C21: when the external routine of a well-known definition id cannot
\* be found or throws, the call returns the series of the built-in
\* implementation for that id; an id that matches no built-in yields an
\* empty result.
C21_FallsBackToBuiltIn ==
    (/\ callOutcome = "resolved"
     /\ callEnv.scenario \in {"fileMissing", "throws"}) =>
        IF callEnv.baseId \in {"sma", "macd"}
        THEN /\ Len(callResults) = 1
             /\ callResults[1].data.kind = "series"
             /\ Valued(callResults[1].data.points) =
                   (IF callEnv.baseId = "sma"
                    THEN calculateSMA(data, EngineValues("sma"))
                    ELSE calculateMACD(data, EngineValues("macd")))
        ELSE callResults = <<>>

\* C22: for every instance and every behaviour of its external routine
\* (file missing, function missing, throws, returns nothing, returns a
\* malformed shape) the promise of calculateIndicator is never rejected
\* and, once pending, is eventually resolved with its list of series.
C22_CallAlwaysCompletes ==
    /\ [](callOutcome # "rejected")
    /\ (callOutcome = "pending") ~> (callOutcome = "resolved")

\* a deferred call whose routine threw has been resolved, empty
C22_Witness ==
    /\ callEnv.revision = 2
    /\ callEnv.scenario = "throws"
    /\ callPc = "done"
    /\ callOutcome = "resolved"
    /\ callResults = <<>>

(***************************************************************************)
(* Part V - SymbolDataRepository: parsing the source file                  *)
(*                                                                         *)
(* A field is the sequence of its characters, a line the sequence of its   *)
(* comma-separated fields (what line.split(',') returns) and a file the    *)
(* sequence of its lines. The characters are digits, the minus sign, the   *)
(* double quote and a letter; white space, decimal points and exponents    *)
(* are left out, and so is parseInt of the trade count, which no check     *)
(* reads.                                                                  *)
(***************************************************************************)
\* how many lines a source file may hold
MaxLines == 2

Digits == <<"0", "1", "2", "3", "4", "5", "6", "7", "8", "9">>

IsDigit(c) == \E i \in 1..10 : Digits[i] = c

DigitValue(c) == (CHOOSE i \in 1..10 : Digits[i] = c) - 1

RECURSIVE DigitsValue(_)
DigitsValue(digits) ==
    IF digits = <<>> THEN 0
    ELSE 10 * DigitsValue(SubSeq(digits, 1, Len(digits) - 1))
            + DigitValue(digits[Len(digits)])

\* the longest prefix of `text` made of digits
DigitPrefix(text) ==
    SubSeq(text, 1, CHOOSE n \in 0..Len(text) :
                        /\ \A i \in 1..n : IsDigit(text[i])
                        /\ n = Len(text) \/ ~IsDigit(text[n + 1]))

\* parseFloat: an optional sign and the longest run of digits after it; what
\* follows the digits is ignored, and without any digit the result is NaN
parseFloat(text) ==
    LET neg == text # <<>> /\ text[1] = "-"
        digits == DigitPrefix(IF neg THEN Tail(text) ELSE text)
    IN  IF digits = <<>>
        THEN [nan |-> TRUE, neg |-> FALSE, digits |-> <<>>]
        ELSE [nan |-> FALSE, neg |-> neg, digits |-> digits]

\* cleanValue = (value) => parseFloat(value.replace(/"/g, ''))
cleanValue(value) == parseFloat(SelectSeq(value, LAMBDA c : c # "\""))

\* the number a parsed field stands for (fields other than the timestamp)
Value(number) ==
    IF number.neg THEN 0 - DigitsValue(number.digits) ELSE DigitsValue(number.digits)

\* Math.floor(timestamp / 1000) and timestamp % 1000, read off the digits
Thousands(digits) ==
    IF Len(digits) <= 3 THEN 0 ELSE DigitsValue(SubSeq(digits, 1, Len(digits) - 3))

Units(digits) ==
    IF Len(digits) <= 3 THEN DigitsValue(digits)
    ELSE DigitsValue(SubSeq(digits, Len(digits) - 2, Len(digits)))

\* row.timestamp > 10000000000 ? Math.floor(row.timestamp / 1000) : row.timestamp
Time(timestamp) ==
    IF /\ ~timestamp.neg
       /\ \/ Thousands(timestamp.digits) > 10000000
          \/ Thousands(timestamp.digits) = 10000000 /\ Units(timestamp.digits) > 0
    THEN Thousands(timestamp.digits)
    ELSE Value(timestamp)

isValidOHLCData_numbersOnly(row) ==
    ~(\/ row.timestamp.nan \/ row.open.nan \/ row.high.nan
      \/ row.low.nan \/ row.close.nan \/ row.volume.nan)

\* SymbolDataRepository.isValidOHLCData
isValidOHLCData(row) ==
    /\ ~(\/ row.timestamp.nan \/ row.open.nan \/ row.high.nan
         \/ row.low.nan \/ row.close.nan \/ row.volume.nan)
    /\ ~(\/ Value(row.high) < Max(Value(row.open), Value(row.close))
         \/ Value(row.low) > Min(Value(row.open), Value(row.close)))
    /\ ~(\/ Value(row.open) < 0 \/ Value(row.high) < 0 \/ Value(row.low) < 0
         \/ Value(row.close) < 0 \/ Value(row.volume) < 0)

\* SymbolDataRepository.parseCSVLine: no row (null) or one row; the bar and its
\* volume point are kept together as one record
parseCSVLine(line) ==
    IF Len(line) < 12 THEN <<>>
    ELSE LET row == [timestamp |-> cleanValue(line[1]), open |-> cleanValue(line[2]),
                     high |-> cleanValue(line[3]), low |-> cleanValue(line[4]),
                     close |-> cleanValue(line[5]), volume |-> cleanValue(line[6])]
         IN  IF ~isValidOHLCData(row) THEN <<>>
             ELSE <<[time |-> Time(row.timestamp), open |-> Value(row.open),
                     high |-> Value(row.high), low |-> Value(row.low),
                     close |-> Value(row.close), volume |-> Value(row.volume)]>>

\* a line that is empty after trim(): split(',') gives one empty field
BlankLine == <<<<>>>>

\* SymbolDataRepository.parseCSVData: the rows of the lines, in file order
RECURSIVE parseCSVData(_)
parseCSVData(lines) ==
    IF lines = <<>> THEN <<>>
    ELSE (IF Head(lines) = BlankLine THEN <<>> ELSE parseCSVLine(Head(lines)))
            \o parseCSVData(Tail(lines))

\* a line of twelve fields
Row(timestamp, open, high, low, close, volume, other) ==
    <<timestamp, open, high, low, close, volume, other, other, other, other, other,
      other>>

\* the lines a source file is made of
CsvLines ==
    { Row(<<"1">>, <<"1">>, <<"2">>, <<"1">>, <<"2">>, <<"1">>, <<"0">>),
      Row(<<"2", "0", "0", "0", "0", "0", "0", "0", "0", "0", "0">>,
          <<"\"", "2", "\"">>, <<"2">>, <<"0">>, <<"1">>, <<"0">>, <<"0">>),
      <<<<"3">>, <<"1">>, <<"2">>, <<"1">>, <<"2">>>>,
      Row(<<"4">>, <<"x">>, <<"2">>, <<"1">>, <<"2">>, <<"1">>, <<"0">>),
      Row(<<"5">>, <<"1", "x">>, <<"2">>, <<"1">>, <<"2">>, <<"1">>, <<"0">>),
      Row(<<"6">>, <<"2">>, <<"1">>, <<"1">>, <<"2">>, <<"1">>, <<"0">>),
      Row(<<"7">>, <<"1">>, <<"2">>, <<"-", "1">>, <<"2">>, <<"1">>, <<"0">>),
      Row(<<"8">>, <<"1">>, <<"2">>, <<"1">>, <<"2">>, <<"1">>, <<"x">>),
      BlankLine }

RECURSIVE LinesUpTo(_)
LinesUpTo(n) ==
    IF n = 0 THEN {<<>>}
    ELSE LinesUpTo(n - 1)
            \cup {Append(lines, line) : lines \in LinesUpTo(n - 1), line \in CsvLines}

CsvFiles == {File("present", lines) : lines \in LinesUpTo(MaxLines)}

repoFrame == UNCHANGED <<storeVars, chartVars, calcVars, engineVars, uiVars>>

\* parseCSVData applied to the text of the file
runParseCSVData ==
    /\ repoCall = NoRepoCall
    /\ repoCall' = [op |-> "parseCSVData", result |-> parseCSVData(csvFile.lines)]
    /\ UNCHANGED <<repoIsInitialized, db, openFailed, memoryCache, symbolData, now,
                   csvFile>>
    /\ repoFrame

CsvInit ==
    /\ wiring = "repository" /\ StoreIdle
    /\ ChartInit /\ CalcIdle /\ EngineIdle /\ UiIdle
    /\ repoIsInitialized = FALSE
    /\ db = "null"
    /\ openFailed = FALSE
    /\ memoryCache = [symbol \in RepoSymbols |-> NoEntry]
    /\ symbolData = [symbol \in RepoSymbols |-> {}]
    /\ now = 0
    /\ csvFile \in CsvFiles
    /\ repoCall = NoRepoCall

CsvNext == runParseCSVData

\* parseCSVData on every source file of at most MaxLines lines
SpecCsv == CsvInit /\ [][CsvNext]_vars

(***************************************************************************)
(* Part V - SymbolDataRepository: the three tiers                          *)
(*                                                                         *)
(* A bar and its volume point travel as one record (convertToOHLCFormat    *)
(* and parseCSVLine split it into `data` and `volumeData`, index by        *)
(* index). The repository is called the way the application calls it,      *)
(* through CSVLoader.loadSymbolData, one call at a time; reads and writes  *)
(* of an open database succeed.                                            *)
(***************************************************************************)
\* how many hours the clock may reach
MaxHours == 1

\* private readonly MEMORY_CACHE_TTL = 60 * 60 * 1000
MEMORY_CACHE_TTL == 60 * 60 * 1000

\* the readings of Date.now(): each full hour, one millisecond before and after
ClockValues ==
    {t \in {h * MEMORY_CACHE_TTL + e : h \in 0..MaxHours, e \in {0 - 1, 0, 1}} : t >= 0}

\* the source files the repository is run on
\* the lines of the longer files: two valid rows of different times and a row
\* whose high is below its open
RepoLines ==
    {line \in CsvLines : line # BlankLine /\ Len(line) >= 12
                            /\ line[1] \in {<<"1">>, <<"6">>,
                                   <<"2", "0", "0", "0", "0", "0", "0", "0", "0", "0", "0">>}}

RepoFiles ==
    {File("unconfigured", <<>>), File("missing", <<>>)}
        \cup {file \in CsvFiles :
                 \/ Len(file.lines) <= 1
                 \/ \A i \in 1..Len(file.lines) : file.lines[i] \in RepoLines}

\* SymbolDataRepository.initialize, `opens` telling whether dbManager.initialize()
\* resolves: what the call leaves in isInitialized and dbManager.db, and whether
\* it rethrows
repoInitialize(opens) ==
    IF repoIsInitialized THEN [isInitialized |-> TRUE, db |-> db, threw |-> FALSE]
    ELSE IF opens THEN [isInitialized |-> TRUE, db |-> "open", threw |-> FALSE]
    ELSE [isInitialized |-> FALSE, db |-> db, threw |-> TRUE]

\* a cache entry is served up to and including the age of MEMORY_CACHE_TTL
Fresh_inclusive(entry) ==
    entry.present /\ now - entry.lastLoaded <= MEMORY_CACHE_TTL

\* checkMemoryCache: cached && cacheAge < this.MEMORY_CACHE_TTL
Fresh(entry) ==
    entry.present /\ now - entry.lastLoaded < MEMORY_CACHE_TTL

\* updateMemoryCache
Entry(rows) == [present |-> TRUE, data |-> rows, lastLoaded |-> now]

\* dataPoints.sort((a, b) => a.time - b.time)
RECURSIVE SortByTime(_)
SortByTime(rows) ==
    IF rows = {} THEN <<>>
    ELSE LET first == CHOOSE r \in rows : \A q \in rows : r.time <= q.time
         IN  <<first>> \o SortByTime(rows \ {first})

\* loadFromIndexedDB once the database is open: the stored rows of the symbol in
\* time order, `<<>>` standing for null; with no database the error of getAll is
\* caught and null returned
loadFromIndexedDB(opened, symbol) ==
    IF opened = "null" THEN <<>> ELSE SortByTime(symbolData[symbol])

\* a load that asks the file although the store returned rows
storeMisses_always(stored) == TRUE

\* getSymbolData: `if (indexedDBResult)`
storeMisses(stored) == stored = <<>>

\* saveDataToIndexedDB -> bulkPut: the key is `${symbolId}_${time}`, so a later
\* row replaces an earlier one of the same time
bulkPut(store, items) ==
    {r \in store : \A i \in 1..Len(items) : items[i].time # r.time}
        \cup {items[j] : j \in {i \in 1..Len(items) :
                                  \A k \in (i + 1)..Len(items) : items[k].time # items[i].time}}

\* loadFromCSVAndSave: loadAndParseCSVFile throws without a symbols folder or a
\* readable file; an empty parse returns before the save; the save throws without
\* a database
loadFromCSVAndSave(opened) ==
    LET rows == IF csvFile.status = "present" THEN parseCSVData(csvFile.lines) ELSE <<>>
    IN  [threw |-> csvFile.status # "present" \/ (rows # <<>> /\ opened = "null"),
         rows |-> rows]

RepoCall(outcome, result, consulted, failed, symbol) ==
    [op |-> "loadSymbolData", symbol |-> symbol, outcome |-> outcome, result |-> result,
     consulted |-> consulted, at |-> now, openFailed |-> failed,
     pre |-> [entry |-> memoryCache[symbol], rows |-> symbolData[symbol]]]

\* CSVLoader.loadSymbolData: ensureRepositoryInitialized(), then
\* SymbolDataRepository.getSymbolData(symbol). A throw of the first
\* loadFromCSVAndSave is caught and the load is tried once more, which throws
\* again and rejects the call.
loadSymbolData(symbol, opens) ==
    LET init == repoInitialize(opens)
        entry == memoryCache[symbol]
        stored == loadFromIndexedDB(init.db, symbol)
        loaded == loadFromCSVAndSave(init.db)
        evicted == [memoryCache EXCEPT ![symbol] = NoEntry]
    IN  /\ wiring = "repository"
        /\ repoIsInitialized' = init.isInitialized
        /\ db' = init.db
        /\ openFailed' = init.threw
        /\ IF init.threw
           THEN /\ repoCall' = RepoCall("rejected", <<>>, <<>>, TRUE, symbol)
                /\ UNCHANGED <<memoryCache, symbolData>>
           ELSE IF Fresh(entry)
           THEN /\ repoCall' = RepoCall("resolved", entry.data, <<"memory">>, FALSE, symbol)
                /\ UNCHANGED <<memoryCache, symbolData>>
           ELSE IF ~storeMisses(stored)
           THEN /\ memoryCache' = [memoryCache EXCEPT ![symbol] = Entry(stored)]
                /\ repoCall' = RepoCall("resolved", stored, <<"memory", "store">>, FALSE,
                                        symbol)
                /\ UNCHANGED symbolData
           ELSE IF loaded.threw
           THEN /\ memoryCache' = evicted
                /\ repoCall' = RepoCall("rejected", <<>>,
                                        <<"memory", "store", "file", "file">>, FALSE, symbol)
                /\ UNCHANGED symbolData
           ELSE IF loaded.rows = <<>>
           THEN /\ memoryCache' = evicted
                /\ repoCall' = RepoCall("resolved", <<>>, <<"memory", "store", "file">>,
                                        FALSE, symbol)
                /\ UNCHANGED symbolData
           ELSE /\ symbolData' = [symbolData EXCEPT
                                     ![symbol] = bulkPut(symbolData[symbol], loaded.rows)]
                /\ memoryCache' = [memoryCache EXCEPT ![symbol] = Entry(loaded.rows)]
                /\ repoCall' = RepoCall("resolved", loaded.rows,
                                        <<"memory", "store", "file">>, FALSE, symbol)
        /\ UNCHANGED <<now, csvFile>>
        /\ repoFrame

\* SymbolDataRepository.removeSymbolData: the rows of the symbol leave the store
\* and its entry leaves the memory cache; without a database getAll throws and
\* the error is rethrown
removeSymbolData(symbol) ==
    /\ wiring = "repository"
    /\ IF db = "null"
       THEN /\ repoCall' = [op |-> "removeSymbolData", symbol |-> symbol,
                            outcome |-> "rejected"]
            /\ UNCHANGED <<memoryCache, symbolData>>
       ELSE /\ symbolData' = [symbolData EXCEPT ![symbol] = {}]
            /\ memoryCache' = [memoryCache EXCEPT ![symbol] = NoEntry]
            /\ repoCall' = [op |-> "removeSymbolData", symbol |-> symbol,
                            outcome |-> "resolved"]
    /\ UNCHANGED <<repoIsInitialized, db, openFailed, now, csvFile>>
    /\ repoFrame

\* time passes
Tick ==
    /\ wiring = "repository"
    /\ \E t \in ClockValues : t > now /\ now' = t
    /\ UNCHANGED <<repoIsInitialized, db, openFailed, memoryCache, symbolData, csvFile,
                   repoCall>>
    /\ repoFrame

\* App.tsx:85-129 when prefsManager.initialize() rejects: the catch logs the error
\* and goes on with the symbols; setPreferencesManager is not reached. The effect
\* runs once, so the open is not tried again.
initializeDatabase_openFails ==
    /\ wiring = "app"
    /\ ~preferencesManager
    /\ ~openFailed
    /\ openFailed' = TRUE
    /\ UNCHANGED <<storeVars, chartVars, calcVars, engineVars, uiVars, repoIsInitialized, db,
                   memoryCache, symbolData, now, csvFile, repoCall>>

\* IndicatorManager.initialize -> BaseRepository.initialize when
\* dbManager.initialize() rejects: the error is rethrown, isInitialized stays false
initialize_openFails ==
    /\ wiring = "manager"
    /\ ~isInitialized
    /\ ~openFailed
    /\ openFailed' = TRUE
    /\ UNCHANGED <<storeVars, chartVars, calcVars, engineVars, uiVars, repoIsInitialized, db,
                   memoryCache, symbolData, now, csvFile, repoCall>>

RepoInit ==
    /\ wiring \in {"app", "manager", "repository"} /\ StoreIdle
    /\ ChartInit /\ CalcIdle /\ EngineIdle /\ UiIdle
    /\ repoIsInitialized = FALSE
    /\ db = "null"
    /\ openFailed = FALSE
    /\ memoryCache = [symbol \in RepoSymbols |-> NoEntry]
    /\ symbolData = [symbol \in RepoSymbols |-> {}]
    /\ now = 0
    /\ csvFile \in (IF wiring = "repository" THEN RepoFiles ELSE {File("missing", <<>>)})
    /\ repoCall = NoRepoCall

RepoNext ==
    \/ \E symbol \in RepoSymbols, opens \in BOOLEAN : loadSymbolData(symbol, opens)
    \/ \E symbol \in RepoSymbols : removeSymbolData(symbol)
    \/ Tick
    \/ initializeDatabase_openFails
    \/ ~openFailed /\ initializeDatabase
    \/ \E d \in DefinitionIds : \E values \in CallerValues(d) : addIndicatorWithValues(d, values)
    \/ initialize_openFails
    \/ ~openFailed /\ initialize
    \/ loadGlobalIndicators

\* the stores and the market data cache where opening a database may fail
SpecRepo == RepoInit /\ [][RepoNext]_vars

(***************************************************************************)
(* Part V - properties of source file parsing                              *)
(***************************************************************************)
\* the whole field, quotes apart, is a number: an optional sign, then digits only
Numeric(field) ==
    LET text == SelectSeq(field, LAMBDA c : c # "\"")
        body == IF text # <<>> /\ text[1] = "-" THEN Tail(text) ELSE text
    IN  body # <<>> /\ \A i \in 1..Len(body) : IsDigit(body[i])

Number(field) == cleanValue(field)

\* a valid row: twelve fields or more, every field numeric, high and low
\* consistent with open and close, no negative price or volume
ValidRow(line) ==
    /\ Len(line) >= 12
    /\ \A i \in 1..12 : Numeric(line[i])
    /\ Value(Number(line[3])) >= Max(Value(Number(line[2])), Value(Number(line[5])))
    /\ Value(Number(line[4])) <= Min(Value(Number(line[2])), Value(Number(line[5])))
    /\ \A i \in 2..6 : Value(Number(line[i])) >= 0

\* C24: parsing a source file returns exactly its valid rows, in file order:
\* a row with too few fields, a non-numeric field, inconsistent or negative
\* values is skipped and the rows after it are still parsed. The code keeps a
\* row whose field only starts with a number ("1x") and a row whose
\* non-numeric field is one of the last six.
C24_ParseKeepsExactlyValidRows ==
    repoCall.op = "parseCSVData" =>
        LET kept == SelectSeq(csvFile.lines, ValidRow)
        IN  /\ Len(repoCall.result) = Len(kept)
            /\ \A i \in 1..Len(kept) :
                  repoCall.result[i].time = Time(Number(kept[i][1]))

(***************************************************************************)
(* Part V - properties of the market data cache and of opening the stores  *)
(***************************************************************************)
\* a completed call of getSymbolData (the open before it did not fail)
Served == repoCall.op = "loadSymbolData" /\ ~repoCall.openFailed

\* C23: with the source file missing and no data for the symbol in memory or
\* in the persistent store, getSymbolData completes with an empty result;
\* with the extension directory not configured, the calculation of an
\* instance completes with no series. The code rejects the call on a missing
\* file: loadAndParseCSVFile throws and getSymbolData only repeats the load.
C23_MissingConfigurationGivesEmpty ==
    /\ (/\ Served
        /\ csvFile.status = "missing"
        /\ ~repoCall.pre.entry.present
        /\ repoCall.pre.rows = {}) =>
            (repoCall.outcome = "resolved" /\ repoCall.result = <<>>)
    /\ (callEnv.scenario = "noDataFolder" /\ callPc = "done") =>
            (callOutcome = "resolved" /\ callResults = <<>>)

\* C25: when opening the persistent store fails, the initialization fails
\* towards its caller and the store stays uninitialized, so that a later
\* operation fails instead of running without persistence: the load of the
\* market data cache is rejected without consulting any tier, a load of the
\* instance repository fails, and no instance is added without being saved.
\* App.tsx catches the error of the open and goes on; its add handler then
\* completes without saving.
C25_OpenFailureIsHard ==
    /\ (repoCall.op = "loadSymbolData" /\ repoCall.openFailed) =>
            /\ repoCall.outcome = "rejected"
            /\ repoCall.consulted = <<>>
            /\ ~repoIsInitialized
    /\ (openFailed /\ lastCall.op \in {"load", "loadAfterRestart"}) => ~lastCall.ok
    /\ (openFailed /\ lastCall.op = "add") => lastCall.ok

\* C26: getSymbolData returns the in-memory entry of the symbol, consulting
\* neither the persistent store nor the source file, exactly when an entry
\* exists whose age is below one hour; an entry whose age has reached one hour
\* is not returned and is no longer in the memory cache after the call.
C26_MemoryServedIffFresh ==
    Served =>
        LET entry == repoCall.pre.entry
            young == entry.present /\ repoCall.at - entry.lastLoaded < 60 * 60 * 1000
        IN  /\ young => /\ repoCall.consulted = <<"memory">>
                        /\ repoCall.outcome = "resolved"
                        /\ repoCall.result = entry.data
            /\ ~young => /\ Len(repoCall.consulted) >= 2
                         /\ repoCall.consulted[1] = "memory"
                         /\ repoCall.consulted[2] = "store"
            /\ (entry.present /\ ~young) => memoryCache[repoCall.symbol] # entry

\* an entry aged exactly one hour was not served: the store was read and the
\* entry replaced by one loaded at the time of the call
C26_Witness ==
    /\ Served
    /\ repoCall.pre.entry.present
    /\ repoCall.at - repoCall.pre.entry.lastLoaded = 60 * 60 * 1000
    /\ repoCall.consulted = <<"memory", "store">>
    /\ memoryCache[repoCall.symbol].lastLoaded = repoCall.at

\* the rows of a result, as the persistent store keys them
RowSet(rows) == {rows[i] : i \in 1..Len(rows)}

\* C27: a getSymbolData call that misses the memory tier consults the
\* persistent store before the source file, and the source file only when the
\* store has no rows for the symbol; when a lower tier supplies the bars, the
\* tiers above it hold them before the call returns (memory from the store;
\* store and memory from the source file), so that the entry is fresh for a
\* next call.
C27_StoreBeforeFile ==
    (Served /\ repoCall.consulted # <<"memory">>) =>
        /\ repoCall.consulted[1] = "memory"
        /\ repoCall.consulted[2] = "store"
        /\ \A i \in 1..Len(repoCall.consulted) :
              repoCall.consulted[i] = "file" => (i > 2 /\ repoCall.pre.rows = {})
        /\ (repoCall.outcome = "resolved" /\ repoCall.result # <<>>) =>
              /\ memoryCache[repoCall.symbol] =
                    [present |-> TRUE, data |-> repoCall.result,
                     lastLoaded |-> repoCall.at]
              /\ RowSet(repoCall.result) \subseteq symbolData[repoCall.symbol]

\* bars were parsed from the source file on an empty store and are now in the
\* store and in memory
C27_Witness ==
    /\ Served
    /\ repoCall.consulted = <<"memory", "store", "file">>
    /\ repoCall.pre.rows = {}
    /\ repoCall.result # <<>>
    /\ symbolData[repoCall.symbol] = RowSet(repoCall.result)
    /\ memoryCache[repoCall.symbol].data = repoCall.result

(***************************************************************************)
(* Part VI - Chart.tsx: new candle data and the crosshair                  *)
(***************************************************************************)
\* how many bars the chart shows
ChartBars == 3

\* the leading bars for which a series has no value
WarmUp(seriesId) ==
    IF Len(seriesId) = 2 /\ seriesId[2] \in {"signal", "histogram"} THEN 2 ELSE 1

\* series.data as calculateIndicator returns it: one point per bar, null during
\* the warm-up
AlignedSeries(seriesId) ==
    [bar \in 1..ChartBars |->
        [time |-> bar, value |-> IF bar <= WarmUp(seriesId) THEN Null ELSE Num(10 * bar)]]

\* validData: the points whose value is not undefined, null or NaN (every valid
\* point lies between the first and the last bar, so dataToUse = validData)
validData(points) == SelectSeq(points, LAMBDA point : point.value.k = "num")

\* the `data` field of the entry that SetAll stored for the series
HandleData(seriesId) == validData(AlignedSeries(seriesId))

\* data.find(point => point.time === time), `<<>>` standing for undefined
FindPoint(points, time) ==
    LET at == {i \in 1..Len(points) : points[i].time = time}
    IN  IF at = {} THEN <<>> ELSE <<points[CHOOSE i \in at : \A j \in at : i <= j]>>

\* updateIndicatorTooltipData: the items of the entries of one pane, grouped by
\* baseIndicator.id (the colour of an item is fixed by its name)
updateIndicatorTooltipData(time, paneType) ==
    LET items == {[owner |-> e.baseIndicator, name |-> e.seriesId,
                   time |-> time, value |-> FindPoint(HandleData(e.seriesId), time)[1].value]
                    : e \in {x \in indicatorSeriesMap :
                               /\ Pane(baseId(x.baseIndicator)) = paneType
                               /\ FindPoint(HandleData(x.seriesId), time) # <<>>}}
    IN  [id \in {item.owner : item \in items} |-> {item \in items : item.owner = id}]

\* what a crosshair move made of the indicator tooltip: the call it made (to =
\* "none" when it made none) and the report it passed
NoReport == [id \in {} |-> {}]

Tooltip(to, paneType, time, groups) ==
    [to |-> to, pane |-> paneType, time |-> time, groups |-> groups]

\* The main chart reports a crosshair move at `time`.  mainOnlyCrosshairHandler
\* passes the candle to onCrosshairMove and nothing else; a mainCrosshairHandler,
\* subscribed when a sub-chart received its series, calls
\* updateIndicatorTooltipData(time, 'main'), which returns at once without the
\* onIndicatorData prop and calls it only with a non-empty report.
mainCrosshairMove(time, onIndicatorData) ==
    /\ chartInitialized
    /\ tooltipData' =
          IF /\ mainCrosshairHandler
             /\ onIndicatorData
             /\ DOMAIN updateIndicatorTooltipData(time, "main") # {}
          THEN Tooltip("onIndicatorData", "main", time,
                       updateIndicatorTooltipData(time, "main"))
          ELSE Tooltip("none", "main", time, NoReport)
    /\ UNCHANGED <<chartProps, renders, chartInitialized, renderedIndicators,
                   subChartIndicators, renderedSubIndicators, subEffectPending,
                   indicatorSeriesMap, mainSeries, subChartsRef, subSeries, inflight,
                   subTimers, released, mainCrosshairHandler, dataRender>>
    /\ storeFrame

\* A sub-chart whose series were added reports a crosshair move:
\* subChartCrosshairHandler -> updateSubChartTooltip shows the items of its
\* instance in the sub-chart's own tooltip, or hides it when there is none.
subChartCrosshairMove(c, time, onIndicatorData) ==
    /\ c \in subChartsRef
    /\ \E x \in subSeries : x.indicator = c.indicator /\ x.run = c.run
    /\ tooltipData' =
          IF /\ onIndicatorData
             /\ c.indicator \in DOMAIN updateIndicatorTooltipData(time, "sub")
          THEN Tooltip("subChartTooltip", c.indicator, time,
                       [id \in {c.indicator} |->
                           updateIndicatorTooltipData(time, "sub")[id]])
          ELSE Tooltip("none", c.indicator, time, NoReport)
    /\ UNCHANGED <<chartProps, renders, chartInitialized, renderedIndicators,
                   subChartIndicators, renderedSubIndicators, subEffectPending,
                   indicatorSeriesMap, mainSeries, subChartsRef, subSeries, inflight,
                   subTimers, released, mainCrosshairHandler, dataRender>>
    /\ storeFrame

\* A render with a new `data` prop.  The cleanup of the chart init effect removes
\* the main chart and the sub-charts (with their series and subscriptions) and
\* the effect arms the 250 ms timer again; the main-pane effect returns at once
\* because mainChartRef.current is null, the sub-chart effect finds nothing to
\* add or remove.
dataChanged ==
    /\ renders < MaxRenders
    /\ ~subEffectPending
    /\ renders' = renders + 1
    /\ dataRender' = renders + 1
    /\ chartInitialized' = FALSE
    /\ mainSeries' = {}
    /\ subChartsRef' = {}
    /\ subSeries' = {}
    /\ mainCrosshairHandler' = FALSE
    /\ UNCHANGED <<chartProps, renderedIndicators, subChartIndicators,
                   renderedSubIndicators, subEffectPending, indicatorSeriesMap, inflight,
                   subTimers, released, tooltipData>>
    /\ storeFrame

TooltipNext ==
    \/ createCharts
    \/ \E i \in ChartInstances : activeIndicatorsChanged(Toggle(chartProps, i))
    \/ subChartEffect
    \/ \E t \in subTimers : subChartTimer(t)
    \/ \E t \in inflight : addIndicatorLayer(t)
    \/ \E t \in inflight : addSubChartSeries(t)
    \/ \E time \in 1..ChartBars, onIndicatorData \in BOOLEAN :
          mainCrosshairMove(time, onIndicatorData)
    \/ \E c \in subChartsRef, time \in 1..ChartBars, onIndicatorData \in BOOLEAN :
          subChartCrosshairMove(c, time, onIndicatorData)

\* the chart under changes of the instances, with the crosshair moving over it
SpecTooltip == Init /\ [][TooltipNext]_vars

ViewNext ==
    \/ createCharts
    \/ \E i \in ChartInstances : activeIndicatorsChanged(Toggle(chartProps, i))
    \/ subChartEffect
    \/ \E t \in subTimers : subChartTimer(t)
    \/ \E t \in inflight : addIndicatorLayer(t)
    \/ \E t \in inflight : addSubChartSeries(t)
    \/ dataChanged

\* the chart under changes of the instances and of the candle data
SpecView == Init /\ [][ViewNext]_vars

\* the value a live handle of the pane has at `time`, as a set of report items
PointsAt(time, owners) ==
    {[owner |-> e.baseIndicator, name |-> e.seriesId, time |-> time,
      value |-> AlignedSeries(e.seriesId)[time].value]
        : e \in {x \in indicatorSeriesMap :
                   /\ x.baseIndicator \in owners
                   /\ x.series \in mainSeries \cup subSeries
                   /\ AlignedSeries(x.seriesId)[time].value # Null}}

GroupedByOwner(items) ==
    [id \in {item.owner : item \in items} |-> {item \in items : item.owner = id}]

MainOwners == {i \in ChartInstances : Pane(baseId(i)) = "main"}

\* C28: a crosshair move at time t, with the report callback provided, reports
\* exactly the values at t of the live handles that have a point at t, grouped
\* by owning instance, and nothing for the handles without a point at t: the
\* main chart for the handles of the main pane, a sub-chart for the handles of
\* its instance.
C28_CrosshairReportsLivePoints ==
    [][\A time \in 1..ChartBars :
          /\ mainCrosshairMove(time, TRUE)
                => /\ tooltipData'.groups = GroupedByOwner(PointsAt(time, MainOwners))
                   /\ PointsAt(time, MainOwners) # {} => tooltipData'.to = "onIndicatorData"
          /\ \A c \in subChartsRef :
                subChartCrosshairMove(c, time, TRUE)
                   => /\ tooltipData'.groups
                            = GroupedByOwner(PointsAt(time, {c.indicator}))
                      /\ PointsAt(time, {c.indicator}) # {}
                            => tooltipData'.to = "subChartTooltip"]_vars

\* what the chart holds for instance i: its handle-table entries, its series on
\* a chart and its sub-chart
Holdings(map, main, sub, charts, i) ==
    [entries |-> {e \in map : e.baseIndicator = i},
     series  |-> {x \in main \cup sub : x.indicator = i},
     charts  |-> {c \in charts : c.indicator = i}]

Kept(before, after) ==
    /\ before.entries \subseteq after.entries
    /\ before.series \subseteq after.series
    /\ before.charts \subseteq after.charts

C30_QuiescentSeriesAreCurrent ==
    (chartInitialized /\ ~subEffectPending /\ inflight = {} /\ subTimers = {})
        => \A i \in chartProps :
              \E e \in indicatorSeriesMap :
                  /\ e.baseIndicator = i
                  /\ e.series \in mainSeries \cup subSeries
                  /\ e.series.run >= dataRender

(***************************************************************************)
(* Part VI - properties of the stored series data                          *)
(***************************************************************************)
\* C31: the data stored with every handle-table entry is the full aligned
\* series: one point per source bar, in bar order, the bars without a value
\* included (with null).
C31_HandleDataSpansAllBars ==
    \A e \in indicatorSeriesMap :
        /\ Len(HandleData(e.seriesId)) = ChartBars
        /\ \A bar \in 1..Len(HandleData(e.seriesId)) :
              HandleData(e.seriesId)[bar].time = bar

(***************************************************************************)
(* Part III - properties of timeline alignment                             *)
(***************************************************************************)
\* the values the computed series has at time t
ValuesAt(series, t) == {series[k].value : k \in {h \in 1..Len(series) : series[h].time = t}}

\* C32: for every source bar the aligned point carries the bar's time, and its
\* value is the value the computed series has at exactly that time when it has
\* one, and null otherwise.
C32_AlignedValueIsOwnTimestamps ==
    calcOut.op = "align" =>
        \A i \in 1..Len(data) :
            /\ calcOut.result[i].time = data[i].time
            /\ IF ValuesAt(calcOut.input, data[i].time) = {}
               THEN calcOut.result[i].value = Null
               ELSE calcOut.result[i].value \in ValuesAt(calcOut.input, data[i].time)

\* a computed series was aligned whose k-th point belongs to another bar than
\* the k-th, and a bar at which it has no point got null
C32_Witness ==
    /\ calcOut.op = "align"
    /\ \E i \in 1..Len(data), k \in 1..Len(calcOut.input) :
          /\ i # k
          /\ calcOut.input[k].time = data[i].time
          /\ calcOut.result[i].value = calcOut.input[k].value
          /\ calcOut.result[i].value # Null
    /\ \E j \in 1..Len(data) :
          /\ ValuesAt(calcOut.input, data[j].time) = {}
          /\ calcOut.result[j].value = Null

(***************************************************************************)
(* Part III - properties of the MACD line                                  *)
(***************************************************************************)
\* the two EMAs a MACD calculation starts from
FastEMA ==
    IF calcOut.impl = "builtin"
    THEN calculateEMA(data, [period |-> calcOut.parameters.fastPeriod])
    ELSE calculateEMA_period(data, calcOut.parameters.fastPeriod)

SlowEMA ==
    IF calcOut.impl = "builtin"
    THEN calculateEMA(data, [period |-> calcOut.parameters.slowPeriod])
    ELSE calculateEMA_period(data, calcOut.parameters.slowPeriod)

MacdLine == IF calcOut.impl = "builtin" THEN calcOut.result ELSE calcOut.result.macd

Differences(fastValues, slowValues) ==
    {Sub(fastValue, slowValue) : fastValue \in fastValues, slowValue \in slowValues}

\* C33: the macd series has a value at exactly the bar times at which both the
\* fast and the slow EMA have one, and the value at time t is
\* fastEMA(t) - slowEMA(t).
C33_MacdPairsByTimestamp ==
    calcOut.op = "macd" =>
        \A fastEMA \in {FastEMA}, slowEMA \in {SlowEMA}, macdLine \in {MacdLine} :
            \A i \in 1..Len(data) :
                ValuesAt(macdLine, data[i].time) \ {Null}
                    = Differences(ValuesAt(fastEMA, data[i].time),
                                  ValuesAt(slowEMA, data[i].time))

(***************************************************************************)
(* Part VII - Chart.tsx: visible range synchronisation of the main chart   *)
(* and one sub-chart                                                       *)
(*                                                                         *)
(* logicalRangeHandler is subscribed on the main chart, and                *)
(* subLogicalRangeHandler on the sub-chart; both share the closure         *)
(* variable syncingRange.  The chart library reports a range change to the *)
(* subscribers of the pane whose range changed; the source does not fix    *)
(* whether setVisibleLogicalRange reports before it returns or in a later  *)
(* frame, so a report may come before or after the 0 ms timer.             *)
(***************************************************************************)
\* the logical ranges a pane may show are 0..MaxRange
MaxRange == 2

\* how many reports, and how many timers, may be pending at once
MaxPending == 2

Panes == {"main", "sub"}

OtherPane(pane) == IF pane = "main" THEN "sub" ELSE "main"

RangeEvent(pane, range, cause) == [pane |-> pane, range |-> range, cause |-> cause]

syncFrame == UNCHANGED <<storeVars, chartVars, calcVars, engineVars, repoVars, handlerVars>>

\* the user scrolls or zooms one pane
scroll(pane, range) ==
    /\ range # visibleRange[pane]
    /\ Cardinality(rangeEvents) < MaxPending
    /\ rangeTimers < MaxPending
    /\ visibleRange' = [visibleRange EXCEPT ![pane] = range]
    /\ rangeEvents' = rangeEvents \cup {RangeEvent(pane, range, "user")}
    /\ UNCHANGED <<syncingRange, rangeTimers, lastSync>>
    /\ syncFrame

\* logicalRangeHandler (event of the main chart) or subLogicalRangeHandler
\* (event of the sub-chart): unless syncingRange is set, set it, give the range
\* to the other chart, and arm the timer that clears it
logicalRangeHandler(event) ==
    /\ event \in rangeEvents
    /\ IF syncingRange
       THEN /\ rangeEvents' = rangeEvents \ {event}
            /\ lastSync' = [handler |-> event.pane, cause |-> event.cause,
                            syncing |-> TRUE, propagated |-> FALSE]
            /\ UNCHANGED <<visibleRange, syncingRange, rangeTimers>>
       ELSE /\ syncingRange' = TRUE
            /\ visibleRange' = [visibleRange EXCEPT ![OtherPane(event.pane)] = event.range]
            /\ rangeEvents' = (rangeEvents \ {event}) \cup
                  (IF visibleRange[OtherPane(event.pane)] # event.range
                   THEN {RangeEvent(OtherPane(event.pane), event.range, "sync")}
                   ELSE {})
            /\ rangeTimers' = rangeTimers + 1
            /\ lastSync' = [handler |-> event.pane, cause |-> event.cause,
                            syncing |-> FALSE, propagated |-> TRUE]
    /\ syncFrame

\* setTimeout(() => { syncingRange = false; }, 0)
rangeTimerFires ==
    /\ rangeTimers > 0
    /\ rangeTimers' = rangeTimers - 1
    /\ syncingRange' = FALSE
    /\ UNCHANGED <<visibleRange, rangeEvents, lastSync>>
    /\ syncFrame

SyncNext ==
    \/ \E pane \in Panes, range \in 0..MaxRange : scroll(pane, range)
    \/ \E event \in rangeEvents : logicalRangeHandler(event)
    \/ rangeTimerFires

SpecSync == Init /\ [][SyncNext]_vars

\* C34: a range change made by the user on one pane is given to the other pane
\* unless a propagation is under way; a range change that a propagation caused
\* is never given back to the pane it came from; and the syncing flag is set
\* only while a timer that clears it is pending.
C34_NoPropagationBack ==
    /\ (lastSync.handler # "none" /\ lastSync.cause = "user" /\ ~lastSync.syncing)
          => lastSync.propagated
    /\ (lastSync.handler # "none" /\ lastSync.cause = "sync") => ~lastSync.propagated
    /\ syncingRange => rangeTimers > 0

(***************************************************************************)
(* Part VIII - Chart.tsx: several instances added in one render            *)
(***************************************************************************)
\* the instances the parent can pass, one of them with a failing calculation
BatchInstances == ChartInstances \cup {"failing_1"}

\* how many times the parent may pass a new active set of any size
MaxBatchRenders == 2

\* the parent passes any active set: several instances may come, or go, at once
BatchNext ==
    \/ createCharts
    \/ \E next \in SUBSET BatchInstances :
          renders < MaxBatchRenders /\ activeIndicatorsChanged(next)
    \/ subChartEffect
    \/ \E t \in subTimers : subChartTimer(t)
    \/ \E t \in inflight : addIndicatorLayer(t)
    \/ \E t \in inflight : addSubChartSeries(t)

SpecBatch == Init /\ [][BatchNext]_vars

\* the entries one completed calculation of instance i registers
HandlesOf(i, run) ==
    {[seriesId |-> sid,
      series |-> [id |-> sid, indicator |-> i, run |-> run],
      baseIndicator |-> i] : sid \in calculateIndicator(i)}

\* C35: once every calculation has completed, each main-pane instance added by
\* a render holds exactly the handles of one completed calculation of its own,
\* whatever the order in which the calculations of that render completed and
\* whether or not another instance's calculation failed.
C35_HandlesIndependentOfCompletionOrder ==
    (chartInitialized /\ ~subEffectPending /\ inflight = {} /\ subTimers = {})
        => \A i \in chartProps \cap renderedIndicators :
              Pane(baseId(i)) = "main"
                 => \E run \in 1..renders :
                       /\ {e \in indicatorSeriesMap : e.baseIndicator = i} = HandlesOf(i, run)
                       /\ {e.series : e \in HandlesOf(i, run)} \subseteq mainSeries

\* two instances and a failing one were added by the same render, and the two
\* have their handles
C35_Witness ==
    /\ chartInitialized /\ ~subEffectPending /\ inflight = {} /\ subTimers = {}
    /\ {"sma_1", "bb_1", "failing_1"} \subseteq chartProps \cap renderedIndicators
    /\ \E run \in 1..renders :
          /\ HandlesOf("sma_1", run) \cup HandlesOf("bb_1", run) \subseteq indicatorSeriesMap
          /\ \A e \in indicatorSeriesMap : e.series.run = run
    /\ \A e \in indicatorSeriesMap : e.baseIndicator # "failing_1"

(***************************************************************************)
(* Part V - properties of the bars the market data cache holds and returns *)
(***************************************************************************)
ValidBar(bar) ==
    /\ bar.high >= bar.open /\ bar.high >= bar.close
    /\ bar.low <= bar.open /\ bar.low <= bar.close
    /\ bar.open >= 0 /\ bar.high >= 0 /\ bar.low >= 0 /\ bar.close >= 0

Bars(rows) == {rows[i] : i \in 1..Len(rows)}

Returned == repoCall.op = "loadSymbolData" /\ repoCall.outcome = "resolved"

\* C36: every bar in the memory cache, every bar in the persistent store and
\* every bar a load returned has high >= max(open, close),
\* low <= min(open, close) and open, high, low, close >= 0.
C36_HeldBarsAreValid ==
    /\ \A symbol \in RepoSymbols :
          /\ \A bar \in symbolData[symbol] : ValidBar(bar)
          /\ memoryCache[symbol].present
                => \A bar \in Bars(memoryCache[symbol].data) : ValidBar(bar)
    /\ Returned => \A bar \in Bars(repoCall.result) : ValidBar(bar)

\* a file with a line whose numbers break the rule and a line that keeps it was
\* loaded: one bar is held by the cache and the store, and was returned
C36_Witness ==
    /\ Returned
    /\ repoCall.consulted = <<"memory", "store", "file">>
    /\ Len(repoCall.result) = 1
    /\ \E i \in 1..Len(csvFile.lines) :
          /\ csvFile.lines[i] # BlankLine
          /\ Len(csvFile.lines[i]) >= 12
          /\ \A k \in 1..6 : ~cleanValue(csvFile.lines[i][k]).nan
          /\ parseCSVLine(csvFile.lines[i]) = <<>>
    /\ symbolData[repoCall.symbol] = Bars(repoCall.result)
    /\ memoryCache[repoCall.symbol].present

\* C37: the bars a load returns have strictly increasing times, whichever tier
\* served them.
C37_ReturnedTimesIncrease ==
    Returned => \A i, j \in 1..Len(repoCall.result) :
                    i < j => repoCall.result[i].time < repoCall.result[j].time

\* ---------------------------------------------------------------------------
\* Subscriptions made on the main chart for a sub-chart (Chart.tsx 786-915).
\* timeScaleHandler, logicalRangeHandler and mainCrosshairHandler are subscribed
\* together, in the same branch of the timer callback, and the only code that
\* unsubscribes them is the _cleanup function stored on the sub-chart (888-915);
\* mainCrosshairHandler stands for the three.
\* ---------------------------------------------------------------------------

\* the sub-chart effect removed the last sub-chart and left the main chart alone
SubChartsRemoved ==
    /\ subChartsRef # {}
    /\ subChartsRef' = {}
    /\ chartInitialized /\ chartInitialized'

\* C38: after a sub-pane instance is removed, the callbacks subscribed on the
\* main chart on behalf of its sub-chart have been unsubscribed: once the last
\* sub-chart is gone no such callback is left on the main chart.
C38_RemovalUnsubscribes ==
    [][SubChartsRemoved => ~mainCrosshairHandler']_vars

\* ===========================================================================
\* Part IX.  App.tsx: the asynchronous handlers and the preferences record
\*
\* handleSymbolChange and addIndicatorWithValues / handleRemoveIndicator are
\* async functions run from UI events; nothing disables the UI while one of
\* them is suspended at an await, so invocations overlap.  Each await is one
\* step: the load of the symbol's bars, the read of the stored preferences and
\* the put of the merged record (PreferencesManager.saveUserPreferences, 70-93).
\* A list of active indicators is named by the invocation that computed it
\* (0 is the default, the empty list).
\* ===========================================================================
MaxCalls == 3

HandlerSymbols == {"btcusdt", "ethusdt"}

DefaultPreferences == [activeIndicators |-> 0, lastSelectedSymbol |-> "null"]

\* a handler invocation: what it is at and the preferences it has read
HandlerCall(id, kind, symbol, save, pc, read) ==
    [id |-> id, kind |-> kind, symbol |-> symbol, save |-> save, pc |-> pc,
     read |-> read]

\* its line in the log: how it ended ("pending" until it returns)
Logged(kind, symbol, ended) == [kind |-> kind, symbol |-> symbol, ended |-> ended]

handlerFrame == UNCHANGED <<storeVars, chartVars, calcVars, engineVars, repoVars, syncVars>>

At(c, pc) == [c EXCEPT !.pc = pc]

Ended(c, ended) == [callLog EXCEPT ![c.id].ended = ended]

\* handleSymbolChange up to `await csvLoader.loadSymbolData(symbol)`
handleSymbolChange(symbol, saveToPreferences) ==
    /\ wiring = "app"
    /\ Len(callLog) < MaxCalls
    /\ currentSymbol' = symbol
    /\ handlerCalls' = handlerCalls \cup
          {HandlerCall(Len(callLog) + 1, "symbol", symbol, saveToPreferences,
                       "loading", DefaultPreferences)}
    /\ callLog' = Append(callLog, Logged("symbol", symbol, "pending"))
    /\ UNCHANGED <<chartData, userPrefsRecord>>
    /\ handlerFrame

\* loadSymbolData resolves: setChartData(data), then saveLastSelectedSymbol when
\* asked to; it rejects: the catch block shows generated sample data
loadSymbolDataSettles(c, resolved) ==
    /\ c \in handlerCalls
    /\ c.pc = "loading"
    /\ IF resolved
       THEN /\ chartData' = c.symbol
            /\ IF c.save
               THEN /\ handlerCalls' = (handlerCalls \ {c}) \cup {At(c, "reading")}
                    /\ UNCHANGED callLog
               ELSE /\ handlerCalls' = handlerCalls \ {c}
                    /\ callLog' = Ended(c, "loaded")
       ELSE /\ chartData' = "sample"
            /\ handlerCalls' = handlerCalls \ {c}
            /\ callLog' = Ended(c, "loadFailed")
    /\ UNCHANGED <<currentSymbol, userPrefsRecord>>
    /\ handlerFrame

\* addIndicatorWithValues / handleRemoveIndicator up to the await inside
\* saveActiveIndicators(updatedIndicators)
saveActiveIndicators_begin ==
    /\ wiring = "app"
    /\ Len(callLog) < MaxCalls
    /\ handlerCalls' = handlerCalls \cup
          {HandlerCall(Len(callLog) + 1, "indicators", "null", TRUE, "reading",
                       DefaultPreferences)}
    /\ callLog' = Append(callLog, Logged("indicators", "null", "pending"))
    /\ UNCHANGED <<currentSymbol, chartData, userPrefsRecord>>
    /\ handlerFrame

\* saveUserPreferences: `const currentPrefs = await this.getUserPreferences()`
saveUserPreferences_get(c) ==
    /\ c \in handlerCalls
    /\ c.pc = "reading"
    /\ handlerCalls' = (handlerCalls \ {c}) \cup
          {[At(c, "writing") EXCEPT !.read = userPrefsRecord]}
    /\ UNCHANGED <<currentSymbol, chartData, userPrefsRecord, callLog>>
    /\ handlerFrame

\* { ...currentPrefs, ...preferences }
Merged(c) ==
    IF c.kind = "symbol"
    THEN [c.read EXCEPT !.lastSelectedSymbol = c.symbol]
    ELSE [c.read EXCEPT !.activeIndicators = c.id]

\* saveUserPreferences: `await this.dbManager.put('userPreferences', updatedPrefs)`
saveUserPreferences_put(c) ==
    /\ c \in handlerCalls
    /\ c.pc = "writing"
    /\ userPrefsRecord' = Merged(c)
    /\ handlerCalls' = handlerCalls \ {c}
    /\ callLog' = Ended(c, "saved")
    /\ UNCHANGED <<currentSymbol, chartData>>
    /\ handlerFrame

HandlersNext ==
    \/ \E symbol \in HandlerSymbols, saveToPreferences \in BOOLEAN :
          handleSymbolChange(symbol, saveToPreferences)
    \/ \E c \in handlerCalls, resolved \in BOOLEAN : loadSymbolDataSettles(c, resolved)
    \/ saveActiveIndicators_begin
    \/ \E c \in handlerCalls : saveUserPreferences_get(c)
    \/ \E c \in handlerCalls : saveUserPreferences_put(c)

SpecHandlers == Init /\ [][HandlersNext]_vars

\* the invocations that stored a value of the field `kind`
Saves(kind) ==
    {k \in 1..Len(callLog) : callLog[k].kind = kind /\ callLog[k].ended = "saved"}

\* the value invocation k stored in its field
SavedValue(k) == IF callLog[k].kind = "symbol" THEN callLog[k].symbol ELSE k

StoredValue(kind) ==
    IF kind = "symbol" THEN userPrefsRecord.lastSelectedSymbol
    ELSE userPrefsRecord.activeIndicators

\* C39: saves of different fields both take effect whatever the interleaving of
\* their read and write steps: once no invocation is pending, a field that
\* exactly one invocation has saved holds the value that invocation saved.
C39_SavesOfDifferentFieldsBothStay ==
    handlerCalls = {} =>
        \A kind \in {"symbol", "indicators"} :
            \A k \in Saves(kind) :
                Saves(kind) = {k} => StoredValue(kind) = SavedValue(k)

\* C40: once every load has completed, none of them with an error, the chart
\* shows the bars of the symbol selected last, whatever the order in which the
\* loads completed.
C40_ChartShowsLastSelectedSymbol ==
    (/\ currentSymbol # "null"
     /\ \A c \in handlerCalls : c.pc # "loading"
     /\ \A k \in 1..Len(callLog) : callLog[k].ended # "loadFailed")
        => chartData = currentSymbol

====
